---- MODULE Spec2Model ----
(***************************************************************************)
(* State-machine model of the ggw-inventory core: the per-category stock   *)
(* managers (mesh, box, screw, saddle/coil), the stocktake updater that    *)
(* rewrites their data files, and the forecasting classifiers.             *)
(*                                                                         *)
(* Every manager object keeps its JSON document in memory (`*_data`) and   *)
(* writes it to its file (`*_file`) in _save_data.  The stocktake updater  *)
(* works on the files only.  The managers share no state, so a behaviour   *)
(* of Spec drives the one manager chosen in Init (variable mgr).           *)
(***************************************************************************)
EXTENDS Integers, Sequences, FiniteSets, TLC

VARIABLES mgr,          \* the manager object this behaviour drives
          mesh_data,    \* MeshManager.data
          mesh_file,    \* data/mesh_rolls.json
          next_id,      \* number of incoming-order ids handed out so far
          box_data,     \* BoxManager.data
          box_file,     \* data/box_inventory.json
          screw_data,   \* ScrewManager.data
          screw_file,   \* data/screw_inventory.json
          saddle_data,  \* SaddleManager.saddle_data
          saddle_file,  \* data/saddle_stock.json
          coil_data,    \* SaddleManager.coil_data
          coil_file,    \* data/coil_inventory.json
          shopify_usage,\* Forecaster._shopify_usage: <<>> for None, else <<summary>>
          forecast,     \* what the last forecast call returned or raised
          now,          \* datetime.utcnow(), in half hours
          cache_file,   \* data/shopify_orders_cache.json
          shop_orders,  \* the shipped orders the Shopify store holds
          wizard_items, \* StocktakeState.items
          wizard_quantities, \* StocktakeState.quantities: item id -> <<>> (None) or <<n>>
          current_index, \* StocktakeState.current_index
          call,         \* the last operation called, with its arguments
          ret           \* what the last operation returned or raised

mesh_vars   == <<mesh_data, mesh_file, next_id>>
box_vars    == <<box_data, box_file>>
screw_vars  == <<screw_data, screw_file>>
saddle_vars == <<saddle_data, saddle_file, coil_data, coil_file>>
forecast_vars == <<shopify_usage, forecast>>
sync_vars   == <<now, cache_file, shop_orders>>
wizard_vars == <<wizard_items, wizard_quantities, current_index>>

vars == <<mgr, mesh_vars, box_vars, screw_vars, saddle_vars, forecast_vars, sync_vars,
          wizard_vars, call, ret>>

(* ------------------------------ bounds ------------------------------- *)
MaxInv    == 2   \* most inventory records a mesh document holds
MaxHist   == 2   \* most events a history list holds
MaxOrders == 2   \* most incoming orders ever placed
MaxStock  == 3   \* largest quantity an add_stock / add_saddles call may reach
MaxCoils  == 1   \* most coils ever added
MaxClock  == 3   \* half hours the clock runs for
MaxShipped == 2  \* most orders the store ever holds
MaxItems  == 3   \* most items a stocktake is initialized with

\* the quantity arguments of add and remove calls
QtyArgs == {1, 2}

(* ------------------------------ helpers ------------------------------ *)
Min(a, b) == IF a < b THEN a ELSE b

RECURSIVE SumSeq(_)
SumSeq(s) == IF s = <<>> THEN 0 ELSE Head(s) + SumSeq(Tail(s))

IsPrefix(s, t) == Len(s) <= Len(t) /\ SubSeq(t, 1, Len(s)) = s

\* the value of `forecast` before any forecast call
NoForecast == [raised |-> "none"]

\* ShopifySync._load_cache when there is no cache file; None is <<>>
NoCache == [orders |-> <<>>, last_synced |-> <<>>, days_fetched |-> 0]

\* StocktakeState.__init__: no items, no quantities
WizardIdle ==
    wizard_items = <<>> /\ wizard_quantities = <<>> /\ current_index = 0

\* nothing synced yet, and no order shipped
SyncIdle == now = 0 /\ cache_file = NoCache /\ shop_orders = <<>>

(* ------------------------------- mesh -------------------------------- *)
MeshTypes == {"4mm_aluminium", "2mm_ember_guard"}

\* the products of the catalogue: one length and one colour, two widths
Product(mt, w) == [mesh_type |-> mt, width_mm |-> w, length_m |-> 10, colour |-> "Monument"]
MeshProducts == {Product("4mm_aluminium", 500), Product("2mm_ember_guard", 250)}

EmptyMesh == [inventory |-> <<>>, usage_history |-> <<>>,
              incoming_orders |-> <<>>, cutting_history |-> <<>>]

MeshEntry(p, q) == [mesh_type |-> p.mesh_type, width_mm |-> p.width_mm,
                    length_m |-> p.length_m, colour |-> p.colour, quantity |-> q]

SameProduct(e, p) == /\ e.mesh_type = p.mesh_type
                     /\ e.width_mm = p.width_mm
                     /\ e.length_m = p.length_m
                     /\ e.colour = p.colour

\* MeshManager.get_stock_level with all four filters given
get_stock_level(data, p) ==
    LET inv == data.inventory
    IN SumSeq([i \in 1..Len(inv) |-> IF SameProduct(inv[i], p) THEN inv[i].quantity ELSE 0])

\* MeshManager.add_roll: always appends a new record (the caller saves)
add_roll(data, p, q) ==
    [data EXCEPT !.inventory = Append(@, MeshEntry(p, q))]

\* datetime.utcnow().isoformat() + "Z", read days_ago days after it was written
UtcStamp(days_ago) == [days_ago |-> days_ago, utc_suffix |-> TRUE]

\* the usage event remove_roll logs
MeshUsage(p, q, reason) ==
    [date |-> UtcStamp(0),
     mesh_type |-> p.mesh_type, width_mm |-> p.width_mm, length_m |-> p.length_m,
     colour |-> p.colour, quantity |-> q, reason |-> reason]

\* the for loop of remove_roll from record i on, `remaining` rolls still to deduct
RECURSIVE remove_loop(_, _, _, _, _)
remove_loop(data, i, remaining, p, reason) ==
    IF i > Len(data.inventory)
    THEN [data |-> data, remaining |-> remaining]
    ELSE IF SameProduct(data.inventory[i], p) /\ data.inventory[i].quantity > 0
         THEN LET deduct == Min(data.inventory[i].quantity, remaining)
                  d2 == [data EXCEPT
                           !.inventory[i].quantity = @ - deduct,
                           !.usage_history = Append(@, MeshUsage(p, deduct, reason))]
              IN IF remaining - deduct = 0
                 THEN [data |-> d2, remaining |-> 0]
                 ELSE remove_loop(d2, i + 1, remaining - deduct, p, reason)
         ELSE remove_loop(data, i + 1, remaining, p, reason)

HasStock(e) == e.quantity > 0

\* MeshManager.remove_roll: the document it leaves in memory, whether it
\* returned True, and (only then) the document it saved
remove_roll(data, p, q, reason) ==
    LET r == remove_loop(data, 1, q, p, reason)
    IN IF r.remaining > 0
       THEN [data |-> r.data, ok |-> FALSE]
       ELSE [data |-> [r.data EXCEPT !.inventory = SelectSeq(@, HasStock)], ok |-> TRUE]

\* MeshManager.cut_roll: the document left in memory, the document saved (if
\* any save happened) and the outcome
\* width_counts that counts every width once, however often it is asked for
WidthCounts_each_once(target_widths) ==
    LET first(i) == \A j \in 1..(i - 1) : target_widths[j] # target_widths[i]
        idx == SelectSeq([i \in 1..Len(target_widths) |-> i], first)
    IN [k \in 1..Len(idx) |-> [width_mm |-> target_widths[idx[k]], quantity |-> 1]]

WidthCounts(target_widths) ==
    \* width_counts in insertion order: each width once, at its first occurrence
    LET first(i) == \A j \in 1..(i - 1) : target_widths[j] # target_widths[i]
        idx == SelectSeq([i \in 1..Len(target_widths) |-> i], first)
        count(w) == Cardinality({j \in 1..Len(target_widths) : target_widths[j] = w})
    IN [k \in 1..Len(idx) |->
          [width_mm |-> target_widths[idx[k]], quantity |-> count(target_widths[idx[k]])]]

RECURSIVE add_result_rolls(_, _, _, _)
add_result_rolls(data, p, wc, k) ==
    IF k > Len(wc) THEN data
    ELSE add_result_rolls(
            add_roll(data, [p EXCEPT !.width_mm = wc[k].width_mm], wc[k].quantity),
            p, wc, k + 1)

cut_roll(data, p, target_widths) ==
    IF SumSeq(target_widths) # p.width_mm
    THEN [data |-> data, saved |-> FALSE, ret |-> "ValueError: widths"]
    ELSE IF get_stock_level(data, p) < 1
    THEN [data |-> data, saved |-> FALSE, ret |-> "ValueError: no stock"]
    ELSE LET r == remove_roll(data, p, 1, "cut")
         IN IF ~r.ok
            THEN [data |-> r.data, saved |-> FALSE, ret |-> "ValueError: remove"]
            ELSE LET wc == WidthCounts(target_widths)
                     d2 == add_result_rolls(r.data, p, wc, 1)
                     d3 == [d2 EXCEPT !.cutting_history =
                               Append(@, [mesh_type |-> p.mesh_type,
                                          source |-> p.width_mm, result |-> wc])]
                 IN [data |-> d3, saved |-> TRUE, ret |-> "cut_record"]

\* MeshManager.add_incoming_order
add_incoming_order(data, id, p, q) ==
    [data EXCEPT !.incoming_orders =
        Append(@, [id |-> id, mesh_type |-> p.mesh_type, width_mm |-> p.width_mm,
                   length_m |-> p.length_m, colour |-> p.colour, quantity |-> q,
                   status |-> "ordered", received_date |-> "none"])]

\* the records of sequence s
Records(s) == {s[i] : i \in 1..Len(s)}

\* index of the first record of s that is among `matching` (the records that
\* pass the loop's test), 0 when there is none
FirstIndex(s, matching) ==
    IF \E i \in 1..Len(s) : s[i] \in matching
    THEN CHOOSE i \in 1..Len(s) :
            s[i] \in matching /\ \A j \in 1..(i - 1) : s[j] \notin matching
    ELSE 0

OrderProduct(o) == [mesh_type |-> o.mesh_type, width_mm |-> o.width_mm,
                    length_m |-> o.length_m, colour |-> o.colour]

\* mark_order_received matching the id alone, whatever the order's status
mark_order_received_any_status(data, order_id) ==
    LET i == FirstIndex(data.incoming_orders, {o \in Records(data.incoming_orders) : o.id = order_id})
    IN IF i = 0
       THEN [data |-> data, ok |-> FALSE]
       ELSE LET o == data.incoming_orders[i]
                d2 == add_roll(data, OrderProduct(o), o.quantity)
            IN [data |-> [d2 EXCEPT !.incoming_orders[i].status = "received",
                                    !.incoming_orders[i].received_date = "today"],
                ok |-> TRUE]

\* MeshManager.mark_order_received
mark_order_received(data, order_id) ==
    LET i == FirstIndex(data.incoming_orders, {o \in Records(data.incoming_orders) : o.id = order_id /\ o.status = "ordered"})
    IN IF i = 0
       THEN [data |-> data, ok |-> FALSE]
       ELSE LET o == data.incoming_orders[i]
                d2 == add_roll(data, OrderProduct(o), o.quantity)
            IN [data |-> [d2 EXCEPT !.incoming_orders[i].status = "received",
                                    !.incoming_orders[i].received_date = "today"],
                ok |-> TRUE]

RemoveAt(s, i) == SubSeq(s, 1, i - 1) \o SubSeq(s, i + 1, Len(s))

\* MeshManager.cancel_incoming_order
cancel_incoming_order(data, order_id) ==
    LET i == FirstIndex(data.incoming_orders, {o \in Records(data.incoming_orders) : o.id = order_id /\ o.status = "ordered"})
    IN IF i = 0
       THEN [data |-> data, ok |-> FALSE]
       ELSE [data |-> [data EXCEPT !.incoming_orders = RemoveAt(@, i)], ok |-> TRUE]

MeshWithinBounds(data) ==
    /\ Len(data.inventory) <= MaxInv
    /\ Len(data.usage_history) <= MaxHist
    /\ Len(data.incoming_orders) <= MaxOrders
    /\ Len(data.cutting_history) <= MaxHist

AddRoll(p, q) ==
    /\ mgr = "mesh"
    /\ LET d == add_roll(mesh_data, p, q)
       IN /\ MeshWithinBounds(d)
          /\ mesh_data' = d
          /\ mesh_file' = d
    /\ call' = [op |-> "add_roll", product |-> p, quantity |-> q]
    /\ ret' = "entry"
    /\ UNCHANGED <<mgr, wizard_vars, sync_vars, forecast_vars, next_id, box_vars, screw_vars, saddle_vars>>

RemoveRoll(p, q) ==
    /\ mgr = "mesh"
    /\ LET r == remove_roll(mesh_data, p, q, "order")
       IN /\ MeshWithinBounds(r.data)
          /\ mesh_data' = r.data
          /\ mesh_file' = IF r.ok THEN r.data ELSE mesh_file
          /\ ret' = IF r.ok THEN "True" ELSE "False"
    /\ call' = [op |-> "remove_roll", product |-> p, quantity |-> q]
    /\ UNCHANGED <<mgr, wizard_vars, sync_vars, forecast_vars, next_id, box_vars, screw_vars, saddle_vars>>

CutRoll(p, target_widths) ==
    /\ mgr = "mesh"
    /\ LET r == cut_roll(mesh_data, p, target_widths)
       IN /\ MeshWithinBounds(r.data)
          /\ mesh_data' = r.data
          /\ mesh_file' = IF r.saved THEN r.data ELSE mesh_file
          /\ ret' = r.ret
    /\ call' = [op |-> "cut_roll", product |-> p, target_widths |-> target_widths]
    /\ UNCHANGED <<mgr, wizard_vars, sync_vars, forecast_vars, next_id, box_vars, screw_vars, saddle_vars>>

AddIncomingOrder(p, q) ==
    /\ mgr = "mesh"
    /\ next_id < MaxOrders
    /\ LET d == add_incoming_order(mesh_data, next_id + 1, p, q)
       IN /\ MeshWithinBounds(d)
          /\ mesh_data' = d
          /\ mesh_file' = d
    /\ next_id' = next_id + 1
    /\ call' = [op |-> "add_incoming_order", product |-> p, quantity |-> q]
    /\ ret' = "entry"
    /\ UNCHANGED <<mgr, wizard_vars, sync_vars, forecast_vars, box_vars, screw_vars, saddle_vars>>

MarkOrderReceived(order_id) ==
    /\ mgr = "mesh"
    /\ LET r == mark_order_received(mesh_data, order_id)
       IN /\ MeshWithinBounds(r.data)
          /\ mesh_data' = r.data
          /\ mesh_file' = IF r.ok THEN r.data ELSE mesh_file
          /\ ret' = IF r.ok THEN "True" ELSE "False"
    /\ call' = [op |-> "mark_order_received", order_id |-> order_id]
    /\ UNCHANGED <<mgr, wizard_vars, sync_vars, forecast_vars, next_id, box_vars, screw_vars, saddle_vars>>

CancelIncomingOrder(order_id) ==
    /\ mgr = "mesh"
    /\ LET r == cancel_incoming_order(mesh_data, order_id)
       IN /\ mesh_data' = r.data
          /\ mesh_file' = IF r.ok THEN r.data ELSE mesh_file
          /\ ret' = IF r.ok THEN "True" ELSE "False"
    /\ call' = [op |-> "cancel_incoming_order", order_id |-> order_id]
    /\ UNCHANGED <<mgr, wizard_vars, sync_vars, forecast_vars, next_id, box_vars, screw_vars, saddle_vars>>

\* MeshManager.__init__: a new manager object reads the file
LoadMesh ==
    /\ mgr = "mesh"
    /\ mesh_data # mesh_file
    /\ mesh_data' = mesh_file
    /\ call' = [op |-> "load"]
    /\ ret' = "none"
    /\ UNCHANGED <<mgr, wizard_vars, sync_vars, forecast_vars, mesh_file, next_id, box_vars, screw_vars, saddle_vars>>

(* ------------------------------- boxes ------------------------------- *)
BoxTypes == {"small_tube", "large_tube"}

EmptyStock == [inventory |-> <<>>, usage_history |-> <<>>]

\* BoxManager.get_stock_by_type
get_stock_by_type(data, box_type) ==
    LET i == FirstIndex(data.inventory, {e \in Records(data.inventory) : e.box_type = box_type})
    IN IF i = 0 THEN 0 ELSE data.inventory[i].quantity

\* BoxManager.add_stock: the first record of the type grows, else a new record
box_add_stock(data, box_type, quantity) ==
    LET i == FirstIndex(data.inventory, {e \in Records(data.inventory) : e.box_type = box_type})
    IN IF i # 0
       THEN [data EXCEPT !.inventory[i].quantity = @ + quantity]
       ELSE [data EXCEPT !.inventory =
                Append(@, [box_type |-> box_type, quantity |-> quantity])]

\* remove_stock without its test `entry["quantity"] < quantity`
box_remove_stock_unchecked(data, box_type, quantity) ==
    LET i == FirstIndex(data.inventory, {e \in Records(data.inventory) : e.box_type = box_type})
    IN IF i = 0
       THEN [data |-> data, ok |-> FALSE]
       ELSE [data |-> [data EXCEPT
                         !.inventory[i].quantity = @ - quantity,
                         !.usage_history =
                             Append(@, [box_type |-> box_type, quantity |-> quantity,
                                        reason |-> "order"])],
             ok |-> TRUE]

\* BoxManager.remove_stock: decided on the first record of the type
box_remove_stock(data, box_type, quantity) ==
    LET i == FirstIndex(data.inventory, {e \in Records(data.inventory) : e.box_type = box_type})
    IN IF i = 0
       THEN [data |-> data, ok |-> FALSE]
       ELSE IF data.inventory[i].quantity < quantity
       THEN [data |-> data, ok |-> FALSE]
       ELSE [data |-> [data EXCEPT
                         !.inventory[i].quantity = @ - quantity,
                         !.usage_history =
                             Append(@, [box_type |-> box_type, quantity |-> quantity,
                                        reason |-> "order"])],
             ok |-> TRUE]

StockWithinBounds(data) ==
    /\ \A i \in 1..Len(data.inventory) : data.inventory[i].quantity <= MaxStock
    /\ Len(data.usage_history) <= MaxHist

BoxAddStock(box_type, quantity) ==
    /\ mgr = "box"
    /\ LET d == box_add_stock(box_data, box_type, quantity)
       IN /\ StockWithinBounds(d)
          /\ box_data' = d
          /\ box_file' = d
    /\ call' = [op |-> "box.add_stock", type |-> box_type, quantity |-> quantity]
    /\ ret' = "entry"
    /\ UNCHANGED <<mgr, wizard_vars, sync_vars, forecast_vars, mesh_vars, screw_vars, saddle_vars>>

BoxRemoveStock(box_type, quantity) ==
    /\ mgr = "box"
    /\ LET r == box_remove_stock(box_data, box_type, quantity)
       IN /\ StockWithinBounds(r.data)
          /\ box_data' = r.data
          /\ box_file' = IF r.ok THEN r.data ELSE box_file
          /\ ret' = IF r.ok THEN "True" ELSE "False"
    /\ call' = [op |-> "box.remove_stock", type |-> box_type, quantity |-> quantity]
    /\ UNCHANGED <<mgr, wizard_vars, sync_vars, forecast_vars, mesh_vars, screw_vars, saddle_vars>>

\* BoxManager.__init__: a new manager object reads the file
LoadBox ==
    /\ mgr = "box"
    /\ box_data # box_file
    /\ box_data' = box_file
    /\ call' = [op |-> "load"]
    /\ ret' = "none"
    /\ UNCHANGED <<mgr, wizard_vars, sync_vars, forecast_vars, mesh_vars, box_file, screw_vars, saddle_vars>>

(* ------------------------------ screws ------------------------------- *)
ScrewTypes == {"saddle", "trim"}
Colours == {"Monument"}

SameScrew(e, screw_type, colour) == e.screw_type = screw_type /\ e.colour = colour

\* ScrewManager.get_stock_by_type_and_colour
get_stock_by_type_and_colour(data, screw_type, colour) ==
    LET i == FirstIndex(data.inventory, {e \in Records(data.inventory) : SameScrew(e, screw_type, colour)})
    IN IF i = 0 THEN 0 ELSE data.inventory[i].quantity

\* ScrewManager.add_stock
screw_add_stock(data, screw_type, colour, quantity) ==
    LET i == FirstIndex(data.inventory, {e \in Records(data.inventory) : SameScrew(e, screw_type, colour)})
    IN IF i # 0
       THEN [data EXCEPT !.inventory[i].quantity = @ + quantity]
       ELSE [data EXCEPT !.inventory =
                Append(@, [screw_type |-> screw_type, colour |-> colour,
                           quantity |-> quantity])]

\* ScrewManager.remove_stock
screw_remove_stock(data, screw_type, colour, quantity) ==
    LET i == FirstIndex(data.inventory, {e \in Records(data.inventory) : SameScrew(e, screw_type, colour)})
    IN IF i = 0
       THEN [data |-> data, ok |-> FALSE]
       ELSE IF data.inventory[i].quantity < quantity
       THEN [data |-> data, ok |-> FALSE]
       ELSE [data |-> [data EXCEPT
                         !.inventory[i].quantity = @ - quantity,
                         !.usage_history =
                             Append(@, [screw_type |-> screw_type, colour |-> colour,
                                        quantity |-> quantity, reason |-> "order"])],
             ok |-> TRUE]

ScrewAddStock(screw_type, colour, quantity) ==
    /\ mgr = "screw"
    /\ LET d == screw_add_stock(screw_data, screw_type, colour, quantity)
       IN /\ StockWithinBounds(d)
          /\ screw_data' = d
          /\ screw_file' = d
    /\ call' = [op |-> "screw.add_stock", type |-> screw_type, colour |-> colour,
                quantity |-> quantity]
    /\ ret' = "entry"
    /\ UNCHANGED <<mgr, wizard_vars, sync_vars, forecast_vars, mesh_vars, box_vars, saddle_vars>>

ScrewRemoveStock(screw_type, colour, quantity) ==
    /\ mgr = "screw"
    /\ LET r == screw_remove_stock(screw_data, screw_type, colour, quantity)
       IN /\ StockWithinBounds(r.data)
          /\ screw_data' = r.data
          /\ screw_file' = IF r.ok THEN r.data ELSE screw_file
          /\ ret' = IF r.ok THEN "True" ELSE "False"
    /\ call' = [op |-> "screw.remove_stock", type |-> screw_type, colour |-> colour,
                quantity |-> quantity]
    /\ UNCHANGED <<mgr, wizard_vars, sync_vars, forecast_vars, mesh_vars, box_vars, saddle_vars>>

\* ScrewManager.__init__: a new manager object reads the file
LoadScrew ==
    /\ mgr = "screw"
    /\ screw_data # screw_file
    /\ screw_data' = screw_file
    /\ call' = [op |-> "load"]
    /\ ret' = "none"
    /\ UNCHANGED <<mgr, wizard_vars, sync_vars, forecast_vars, mesh_vars, box_vars, screw_file, saddle_vars>>

(* -------------------------- saddles and coils ------------------------ *)
SaddleTypes == {"corrugated", "trimdek"}

EmptySaddles == [inventory |-> <<>>, usage_history |-> <<>>, production_history |-> <<>>]
EmptyCoils == [inventory |-> <<>>]

\* Python's int(n / d): truncation toward zero
Trunc(n, d) == IF n >= 0 THEN n \div d ELSE -((-n) \div d)

\* config["production"], the global defaults; a yield is in tenths of a unit
\* per kg
ProductionDefaults == [yield_per_kg |-> 500, waste_percent |-> 30]

\* config["saddle_types"]: <<>> for a type that is not configured, and <<>>
\* for a value a configured type does not override. Corrugated saddles have
\* both values (66 per kg, 27 % waste), trims only their yield (8.4 per kg)
SaddleTypesConfig(saddle_type) ==
    IF saddle_type = "corrugated"
    THEN <<[yield_per_kg |-> <<660>>, waste_percent |-> <<27>>]>>
    ELSE IF saddle_type = "trim"
    THEN <<[yield_per_kg |-> <<84>>, waste_percent |-> <<>>]>>
    ELSE <<>>

\* the production defaults for every type
SaddleConfig_defaults_only(saddle_type) == ProductionDefaults

\* type_config = config["saddle_types"].get(saddle_type, {}) and
\* type_config.get(value, config["production"][value]) for both values
SaddleConfig(saddle_type) ==
    LET type_config == SaddleTypesConfig(saddle_type)
        get(value, default) == IF value = <<>> THEN default ELSE value[1]
    IN IF type_config = <<>> THEN ProductionDefaults
       ELSE [yield_per_kg |-> get(type_config[1].yield_per_kg,
                                  ProductionDefaults.yield_per_kg),
             waste_percent |-> get(type_config[1].waste_percent,
                                   ProductionDefaults.waste_percent)]

\* int(weight_kg * (1 - waste_percent / 100) * yield_per_kg)
expected_output(weight_kg, saddle_type) ==
    LET c == SaddleConfig(saddle_type)
    IN Trunc(weight_kg * (100 - c.waste_percent) * c.yield_per_kg, 1000)

\* SaddleManager.calculate_production_estimate; saddle_type is <<>> for None;
\* usable_kg and waste_kg, rounded to two decimals, are in hundredths of a kg
calculate_production_estimate(weight_kg, saddle_type) ==
    LET configured == saddle_type # <<>> /\ SaddleTypesConfig(saddle_type[1]) # <<>>
        c == IF configured THEN SaddleConfig(saddle_type[1]) ELSE ProductionDefaults
    IN [weight_kg |-> weight_kg,
        usable_kg |-> weight_kg * (100 - c.waste_percent),
        waste_kg |-> weight_kg * c.waste_percent,
        waste_percent |-> c.waste_percent,
        expected_output |-> Trunc(weight_kg * (100 - c.waste_percent) * c.yield_per_kg, 1000),
        yield_per_kg |-> c.yield_per_kg]

\* SaddleManager.add_coil; a coil's id is its position in the coil list
add_coil(coils, saddle_type, colour, weight_kg) ==
    [coils EXCEPT !.inventory =
        Append(@, [id |-> Len(coils.inventory) + 1,
                   saddle_type |-> saddle_type, colour |-> colour,
                   initial_weight_kg |-> weight_kg,
                   current_weight_kg |-> weight_kg,
                   estimated_yield |-> expected_output(weight_kg, saddle_type),
                   status |-> "in_stock"])]

SameSaddle(e, saddle_type, colour) == e.saddle_type = saddle_type /\ e.colour = colour

\* SaddleManager._add_to_stock
_add_to_stock(data, saddle_type, colour, quantity) ==
    LET i == FirstIndex(data.inventory, {e \in Records(data.inventory) : SameSaddle(e, saddle_type, colour)})
    IN IF i # 0
       THEN [data EXCEPT !.inventory[i].quantity = @ + quantity]
       ELSE [data EXCEPT !.inventory =
                Append(@, [saddle_type |-> saddle_type, colour |-> colour,
                           quantity |-> quantity])]

\* a test that lets every weight through
never_insufficient(coil, weight_used_kg) == FALSE

\* log_production's test `weight_used_kg > coil["current_weight_kg"]`
insufficient_material(coil, weight_used_kg) == weight_used_kg > coil.current_weight_kg

\* SaddleManager.log_production; saddles_produced is <<>> for None, <<n>> for n
log_production(coils, saddles, coil_id, weight_used_kg, saddles_produced) ==
    LET i == FirstIndex(coils.inventory, {c \in Records(coils.inventory) : c.id = coil_id})
    IN IF i = 0
       THEN [coils |-> coils, saddles |-> saddles, ret |-> "ValueError: Coil not found"]
       ELSE IF insufficient_material(coils.inventory[i], weight_used_kg)
       THEN [coils |-> coils, saddles |-> saddles,
             ret |-> "ValueError: Insufficient material"]
       ELSE LET coil == coils.inventory[i]
                expected_saddles == expected_output(weight_used_kg, coil.saddle_type)
                produced == IF saddles_produced = <<>> THEN expected_saddles
                            ELSE saddles_produced[1]
                current == coil.current_weight_kg - weight_used_kg
                c == SaddleConfig(coil.saddle_type)
                record == [coil_id |-> coil_id, saddle_type |-> coil.saddle_type,
                           colour |-> coil.colour, weight_used_kg |-> weight_used_kg,
                           \* round(usable_kg, 2), round(waste_kg, 2), in hundredths
                           usable_kg |-> weight_used_kg * (100 - c.waste_percent),
                           waste_kg |-> weight_used_kg * c.waste_percent,
                           expected_saddles |-> expected_saddles,
                           saddles_produced |-> produced]
                s2 == [saddles EXCEPT !.production_history = Append(@, record)]
            IN [coils |-> [coils EXCEPT
                             !.inventory[i].current_weight_kg = current,
                             !.inventory[i].status =
                                 IF current <= 0 THEN "depleted" ELSE "in_use"],
                saddles |-> _add_to_stock(s2, coil.saddle_type, coil.colour, produced),
                ret |-> "production_record"]

\* the quantity of the first record of a saddle type and colour
get_saddle_quantity(data, saddle_type, colour) ==
    LET i == FirstIndex(data.inventory, {e \in Records(data.inventory) : SameSaddle(e, saddle_type, colour)})
    IN IF i = 0 THEN 0 ELSE data.inventory[i].quantity

\* SaddleManager.add_saddles
add_saddles(data, saddle_type, colour, quantity) ==
    _add_to_stock(data, saddle_type, colour, quantity)

\* SaddleManager.remove_saddles
remove_saddles(data, saddle_type, colour, quantity) ==
    LET i == FirstIndex(data.inventory, {e \in Records(data.inventory) : SameSaddle(e, saddle_type, colour)})
    IN IF i = 0
       THEN [data |-> data, ok |-> FALSE]
       ELSE IF data.inventory[i].quantity < quantity
       THEN [data |-> data, ok |-> FALSE]
       ELSE [data |-> [data EXCEPT
                         !.inventory[i].quantity = @ - quantity,
                         !.usage_history =
                             Append(@, [saddle_type |-> saddle_type, colour |-> colour,
                                        quantity |-> quantity, reason |-> "order"])],
             ok |-> TRUE]

AddCoil(saddle_type, colour, weight_kg) ==
    /\ mgr = "saddle"
    /\ Len(coil_data.inventory) < MaxCoils
    /\ LET c == add_coil(coil_data, saddle_type, colour, weight_kg)
       IN /\ coil_data' = c
          /\ coil_file' = c
    /\ call' = [op |-> "add_coil", type |-> saddle_type, colour |-> colour,
                weight_kg |-> weight_kg]
    /\ ret' = "entry"
    /\ UNCHANGED <<mgr, wizard_vars, sync_vars, forecast_vars, mesh_vars, box_vars, screw_vars, saddle_data, saddle_file>>

LogProduction(coil_id, weight_used_kg, saddles_produced) ==
    /\ mgr = "saddle"
    /\ LET r == log_production(coil_data, saddle_data, coil_id, weight_used_kg,
                               saddles_produced)
       IN /\ Len(r.saddles.production_history) <= MaxHist
          /\ coil_data' = r.coils
          /\ saddle_data' = r.saddles
          /\ coil_file' = IF r.ret = "production_record" THEN r.coils ELSE coil_file
          /\ saddle_file' = IF r.ret = "production_record" THEN r.saddles ELSE saddle_file
          /\ ret' = r.ret
    /\ call' = [op |-> "log_production", coil_id |-> coil_id,
                weight_used_kg |-> weight_used_kg]
    /\ UNCHANGED <<mgr, wizard_vars, sync_vars, forecast_vars, mesh_vars, box_vars, screw_vars>>

AddSaddles(saddle_type, colour, quantity) ==
    /\ mgr = "saddle"
    /\ LET d == add_saddles(saddle_data, saddle_type, colour, quantity)
       IN /\ get_saddle_quantity(d, saddle_type, colour) <= MaxStock
          /\ saddle_data' = d
          /\ saddle_file' = d
    /\ call' = [op |-> "add_saddles", type |-> saddle_type, colour |-> colour,
                quantity |-> quantity]
    /\ ret' = "entry"
    /\ UNCHANGED <<mgr, wizard_vars, sync_vars, forecast_vars, mesh_vars, box_vars, screw_vars, coil_data, coil_file>>

RemoveSaddles(saddle_type, colour, quantity) ==
    /\ mgr = "saddle"
    /\ LET r == remove_saddles(saddle_data, saddle_type, colour, quantity)
       IN /\ Len(r.data.usage_history) <= MaxHist
          /\ saddle_data' = r.data
          /\ saddle_file' = IF r.ok THEN r.data ELSE saddle_file
          /\ ret' = IF r.ok THEN "True" ELSE "False"
    /\ call' = [op |-> "remove_saddles", type |-> saddle_type, colour |-> colour,
                quantity |-> quantity]
    /\ UNCHANGED <<mgr, wizard_vars, sync_vars, forecast_vars, mesh_vars, box_vars, screw_vars, coil_data, coil_file>>

\* the Coils page asks for an estimate; nothing is stored
CalculateProductionEstimate(weight_kg, saddle_type) ==
    /\ mgr = "saddle"
    /\ forecast' = calculate_production_estimate(weight_kg, saddle_type)
    /\ call' = [op |-> "calculate_production_estimate", weight_kg |-> weight_kg,
                type |-> saddle_type]
    /\ ret' = "estimate"
    /\ UNCHANGED <<mgr, wizard_vars, sync_vars, shopify_usage, mesh_vars, box_vars, screw_vars, saddle_vars>>

\* SaddleManager.__init__: a new manager object reads both files
LoadSaddle ==
    /\ mgr = "saddle"
    /\ <<saddle_data, coil_data>> # <<saddle_file, coil_file>>
    /\ saddle_data' = saddle_file
    /\ coil_data' = coil_file
    /\ call' = [op |-> "load"]
    /\ ret' = "none"
    /\ UNCHANGED <<mgr, wizard_vars, sync_vars, forecast_vars, mesh_vars, box_vars, screw_vars, saddle_file, coil_file>>

(* ----------------------------- stocktake ----------------------------- *)
\* the quantities a count can enter for one item
StocktakeCounts == {0, 2}

\* stocktake_updater.update_mesh_inventory on the file's document
update_mesh_inventory(existing, entries, mesh_category) ==
    LET mesh_type == IF mesh_category = "mesh_4mm" THEN "4mm_aluminium" ELSE "2mm_ember_guard"
        other_type == IF mesh_type = "4mm_aluminium" THEN "2mm_ember_guard" ELSE "4mm_aluminium"
        kept_inventory == SelectSeq(existing.inventory, LAMBDA item : item.mesh_type = other_type)
        counted == SelectSeq(entries, LAMBDA e : e.category = mesh_category /\ e.quantity > 0)
        new_entries == [i \in 1..Len(counted) |->
                          [mesh_type |-> mesh_type, width_mm |-> counted[i].width_mm,
                           length_m |-> counted[i].length_m, colour |-> counted[i].colour,
                           quantity |-> counted[i].quantity]]
    IN [inventory |-> kept_inventory \o new_entries,
        usage_history |-> <<>>,
        incoming_orders |-> existing.incoming_orders,
        cutting_history |-> <<>>]

\* the wizard's items of a mesh category, each with the counted quantity
MeshCategory(mt) == IF mt = "4mm_aluminium" THEN "mesh_4mm" ELSE "mesh_2mm"
MeshItems(mesh_category) ==
    IF mesh_category = "mesh_4mm"
    THEN <<Product("4mm_aluminium", 500)>>
    ELSE <<Product("2mm_ember_guard", 250)>>
MeshCount(mesh_category, quantities) ==
    LET items == MeshItems(mesh_category)
    IN [i \in 1..Len(items) |->
          [category |-> mesh_category, width_mm |-> items[i].width_mm,
           length_m |-> items[i].length_m, colour |-> items[i].colour,
           quantity |-> quantities[i]]]

\* apply_category_stocktake(entries, "mesh_4mm" | "mesh_2mm")
ApplyMeshStocktake(mesh_category, quantities) ==
    /\ mgr = "mesh"
    /\ LET entries == MeshCount(mesh_category, quantities)
           non_zero_entries == SelectSeq(entries, LAMBDA e : e.quantity > 0)
           f == update_mesh_inventory(mesh_file, non_zero_entries, mesh_category)
       IN /\ MeshWithinBounds(f)
          /\ mesh_file' = f
    /\ call' = [op |-> "apply_category_stocktake", category |-> mesh_category,
                quantities |-> quantities]
    /\ ret' = "result"
    /\ UNCHANGED <<mgr, wizard_vars, sync_vars, forecast_vars, mesh_data, next_id, box_vars, screw_vars, saddle_vars>>

\* stocktake_updater.update_box_inventory
update_box_inventory(existing, entries) ==
    LET counted == SelectSeq(entries, LAMBDA e : e.category = "boxes" /\ e.quantity > 0)
    IN [inventory |-> [i \in 1..Len(counted) |->
                         [box_type |-> counted[i].box_type,
                          quantity |-> counted[i].quantity]],
        usage_history |-> <<>>]

\* stocktake_updater.update_screw_inventory
update_screw_inventory(existing, entries) ==
    LET counted == SelectSeq(entries, LAMBDA e : e.category = "screws" /\ e.quantity > 0)
    IN [inventory |-> [i \in 1..Len(counted) |->
                         [screw_type |-> "screws", colour |-> counted[i].colour,
                          quantity |-> counted[i].quantity]],
        usage_history |-> <<>>]

\* stocktake_updater.update_saddle_inventory
update_saddle_inventory(existing, entries, saddle_type) ==
    LET category_name == IF saddle_type = "corrugated" THEN "corrugated_saddles"
                         ELSE "trimdek_saddles"
        other_type == IF saddle_type = "corrugated" THEN "trimdek" ELSE "corrugated"
        kept_inventory == SelectSeq(existing.inventory,
                                    LAMBDA item : item.saddle_type = other_type)
        counted == SelectSeq(entries,
                             LAMBDA e : e.category = category_name /\ e.quantity > 0)
        new_entries == [i \in 1..Len(counted) |->
                          [saddle_type |-> saddle_type, colour |-> counted[i].colour,
                           quantity |-> counted[i].quantity]]
    IN [inventory |-> kept_inventory \o new_entries,
        production_history |-> existing.production_history,
        usage_history |-> <<>>]

\* the wizard's box items in catalogue order, with the counted quantities
BoxCount(quantities) ==
    <<[category |-> "boxes", box_type |-> "small_tube", quantity |-> quantities[1]],
      [category |-> "boxes", box_type |-> "large_tube", quantity |-> quantities[2]]>>

NonZero(entries) == SelectSeq(entries, LAMBDA e : e.quantity > 0)

\* apply_category_stocktake(entries, "boxes")
ApplyBoxStocktake(quantities) ==
    /\ mgr = "box"
    /\ box_file' = update_box_inventory(box_file, NonZero(BoxCount(quantities)))
    /\ call' = [op |-> "apply_category_stocktake", category |-> "boxes",
                quantities |-> quantities]
    /\ ret' = "result"
    /\ UNCHANGED <<mgr, wizard_vars, sync_vars, forecast_vars, mesh_vars, box_data, screw_vars, saddle_vars>>

\* apply_category_stocktake(entries, "screws")
ApplyScrewStocktake(colour, quantity) ==
    /\ mgr = "screw"
    /\ screw_file' = update_screw_inventory(screw_file,
            NonZero(<<[category |-> "screws", colour |-> colour, quantity |-> quantity]>>))
    /\ call' = [op |-> "apply_category_stocktake", category |-> "screws",
                quantities |-> <<quantity>>]
    /\ ret' = "result"
    /\ UNCHANGED <<mgr, wizard_vars, sync_vars, forecast_vars, mesh_vars, box_vars, screw_data, saddle_vars>>

\* apply_category_stocktake(entries, "corrugated_saddles" | "trimdek_saddles")
ApplySaddleStocktake(saddle_type, colour, quantity) ==
    /\ mgr = "saddle"
    /\ LET category_name == IF saddle_type = "corrugated" THEN "corrugated_saddles"
                            ELSE "trimdek_saddles"
       IN /\ saddle_file' = update_saddle_inventory(saddle_file,
                 NonZero(<<[category |-> category_name, colour |-> colour,
                            quantity |-> quantity]>>), saddle_type)
          /\ call' = [op |-> "apply_category_stocktake", category |-> category_name,
                      quantities |-> <<quantity>>]
    /\ ret' = "result"
    /\ UNCHANGED <<mgr, wizard_vars, sync_vars, forecast_vars, mesh_vars, box_vars, screw_vars, saddle_data, coil_data, coil_file>>

(* ---------------------------- forecasting ---------------------------- *)
\* Numbers the code holds as floats are kept exact: a rate is a fraction
\* [num, den] with den > 0, a value rounded to k decimals is the integer
\* count of its last decimal.

\* Python's round(n / d, 0) on non-negative n / d: nearest, ties to even
RoundHalfEven(n, d) ==
    LET q == n \div d
        r == n % d
    IN IF 2 * r < d THEN q
       ELSE IF 2 * r > d THEN q + 1
       ELSE IF q % 2 = 0 THEN q ELSE q + 1

\* mesh_config["mesh_types"]: <<>> for a type that is not configured
MeshTypeConfig(mesh_type) ==
    IF mesh_type = "4mm_aluminium" THEN <<[lead_time_months |-> 4]>> ELSE <<>>

\* mesh_types.get(mesh_type, {}).get("lead_time_months", 4)
lead_time_months(mesh_type) ==
    IF MeshTypeConfig(mesh_type) # <<>>
    THEN MeshTypeConfig(mesh_type)[1].lead_time_months
    ELSE 4

\* the dictionary key of a stock record or usage event
MeshKey(e) == [mesh_type |-> e.mesh_type, width_mm |-> e.width_mm, colour |-> e.colour]

\* datetime.fromisoformat(u["date"].replace("Z", "+00:00")): a stamp that
\* ended in "Z" parses to a timezone-aware datetime
fromisoformat(date) == [days_ago |-> date.days_ago, aware |-> date.utc_suffix]

\* `usage_date < cutoff` with cutoff = datetime.utcnow() - timedelta(days):
\* comparing an aware datetime with the naive cutoff raises TypeError
BeforeCutoff(usage_date, days) ==
    IF usage_date.aware THEN "TypeError"
    ELSE IF usage_date.days_ago > days THEN "True" ELSE "False"

\* the keys of s in order of first occurrence (dict insertion order)
KeysInOrder(s) ==
    LET first(i) == \A j \in 1..(i - 1) : MeshKey(s[j]) # MeshKey(s[i])
        idx == SelectSeq([i \in 1..Len(s) |-> i], first)
    IN [k \in 1..Len(idx) |-> MeshKey(s[idx[k]])]

\* sorted(s, key = ...): a stable sort; <<a, b>> \in before says a's key orders
\* strictly before b's, and elements with equal keys keep their order
Sorted(s, before) ==
    LET pos(i) == 1 + Cardinality({j \in 1..Len(s) :
                          \/ <<s[j], s[i]>> \in before
                          \/ (<<s[i], s[j]>> \notin before /\ j < i)})
    IN [k \in 1..Len(s) |-> s[CHOOSE i \in 1..Len(s) : pos(i) = k]]

\* Forecaster.get_usage_by_product
get_usage_by_product(mesh, days) ==
    LET hist == mesh.usage_history
        in_window == SelectSeq(hist,
                        LAMBDA u : BeforeCutoff(fromisoformat(u.date), days) = "False")
        keys == KeysInOrder(in_window)
        rolls(k) == SumSeq([i \in 1..Len(in_window) |->
                       IF MeshKey(in_window[i]) = k THEN in_window[i].quantity ELSE 0])
        metres(k) == SumSeq([i \in 1..Len(in_window) |->
                       IF MeshKey(in_window[i]) = k
                       THEN in_window[i].quantity * in_window[i].length_m ELSE 0])
        result == [i \in 1..Len(keys) |->
                     [mesh_type |-> keys[i].mesh_type, width_mm |-> keys[i].width_mm,
                      colour |-> keys[i].colour,
                      rolls_used |-> rolls(keys[i]),
                      metres_used |-> metres(keys[i]),
                      \* round(metres / days, 2), in hundredths
                      avg_daily_metres |-> RoundHalfEven(metres(keys[i]) * 100, days)]]
    IN IF \E i \in 1..Len(hist) : BeforeCutoff(fromisoformat(hist[i].date), days) = "TypeError"
       THEN [raised |-> "TypeError", result |-> <<>>]
       ELSE [raised |-> "none",
             result |-> Sorted(result, {ab \in Records(result) \X Records(result) :
                                           ab[1].metres_used > ab[2].metres_used})]

\* usage_date.strftime(...) of get_usage_by_period, today being a Sunday and
\* the last day of a month, months taken as 30 days: the label of a day is
\* how many days ago it was, of a week ("%Y-W%W", weeks from Monday) how many
\* weeks ago, of a month how many months ago; any other group_by labels days
strftime(usage_date, group_by) ==
    IF group_by = "week" THEN [period |-> "week", ago |-> usage_date.days_ago \div 7]
    ELSE IF group_by = "month" THEN [period |-> "month", ago |-> usage_date.days_ago \div 30]
    ELSE [period |-> "day", ago |-> usage_date.days_ago]

\* Forecaster.get_usage_by_period: the metres of the events not before the
\* cutoff, added up per label, as (label, metres) pairs sorted by label
\* (earliest period first)
get_usage_by_period(mesh, days, group_by) ==
    LET hist == mesh.usage_history
        in_window == SelectSeq(hist,
                        LAMBDA u : BeforeCutoff(fromisoformat(u.date), days) = "False")
        key(u) == strftime(fromisoformat(u.date), group_by)
        first(i) == \A j \in 1..(i - 1) : key(in_window[j]) # key(in_window[i])
        idx == SelectSeq([i \in 1..Len(in_window) |-> i], first)
        metres(k) == SumSeq([i \in 1..Len(in_window) |->
                        IF key(in_window[i]) = k
                        THEN in_window[i].quantity * in_window[i].length_m ELSE 0])
        usage_by_period == [n \in 1..Len(idx) |->
                              [key |-> key(in_window[idx[n]]),
                               metres |-> metres(key(in_window[idx[n]]))]]
    IN IF \E i \in 1..Len(hist) : BeforeCutoff(fromisoformat(hist[i].date), days) = "TypeError"
       THEN [raised |-> "TypeError", result |-> <<>>]
       ELSE [raised |-> "none",
             result |-> Sorted(usage_by_period,
                               {ab \in Records(usage_by_period) \X Records(usage_by_period) :
                                   ab[1].key.ago > ab[2].key.ago})]

\* the Forecaster, holding the document of the file, is asked for the usage
\* per period
GetUsageByPeriod(days, group_by) ==
    /\ forecast' = get_usage_by_period(mesh_file, days, group_by)
    /\ call' = [op |-> "get_usage_by_period", days |-> days, group_by |-> group_by]
    /\ ret' = IF forecast'.raised = "none" THEN "usage" ELSE forecast'.raised
    /\ UNCHANGED <<mgr, wizard_vars, sync_vars, mesh_vars, box_vars, screw_vars, saddle_vars, shopify_usage>>

\* the Forecaster is asked for the usage per product
GetUsageByProduct(days) ==
    /\ forecast' = get_usage_by_product(mesh_file, days)
    /\ call' = [op |-> "get_usage_by_product", days |-> days]
    /\ ret' = IF forecast'.raised = "none" THEN "usage" ELSE forecast'.raised
    /\ UNCHANGED <<mgr, wizard_vars, sync_vars, mesh_vars, box_vars, screw_vars, saddle_vars, shopify_usage>>

\* the ladder without its NO_USAGE rung: a zero rate falls through to the
\* comparisons
mesh_status_ladder_only(current_metres, daily_usage, lead_time) ==
    IF current_metres * 100 < lead_time * daily_usage * 30 THEN "CRITICAL"
    ELSE IF current_metres * 100 < (lead_time + 1) * daily_usage * 30 THEN "ORDER_NOW"
    ELSE IF current_metres * 100 < (lead_time + 2) * daily_usage * 30 THEN "LOW"
    ELSE "OK"

\* the status ladder of calculate_stock_forecast; months_remaining is
\* current_metres / daily_usage / 30 with daily_usage in hundredths
mesh_status(current_metres, daily_usage, lead_time) ==
    IF ~(daily_usage > 0) THEN "NO_USAGE"
    ELSE IF current_metres * 100 < lead_time * daily_usage * 30 THEN "CRITICAL"
    ELSE IF current_metres * 100 < (lead_time + 1) * daily_usage * 30 THEN "ORDER_NOW"
    ELSE IF current_metres * 100 < (lead_time + 2) * daily_usage * 30 THEN "LOW"
    ELSE "OK"

\* the forecast entry calculate_stock_forecast builds for one key;
\* None is <<>>, a number n is <<n>>
mesh_forecast_entry(mesh, usage, key) ==
    LET inv == mesh.inventory
        current_metres == SumSeq([i \in 1..Len(inv) |->
                             IF MeshKey(inv[i]) = key
                             THEN inv[i].quantity * inv[i].length_m ELSE 0])
        i == FirstIndex(usage, {item \in Records(usage) : MeshKey(item) = key})
        daily_usage == IF i = 0 THEN 0 ELSE usage[i].avg_daily_metres
        lead_time == lead_time_months(key.mesh_type)
    IN [mesh_type |-> key.mesh_type, width_mm |-> key.width_mm, colour |-> key.colour,
        current_metres |-> current_metres,
        avg_daily_usage |-> daily_usage,
        \* round(daily_usage * 30, 1), in tenths
        avg_monthly_usage |-> daily_usage * 3,
        days_remaining |-> IF daily_usage > 0
                           THEN <<RoundHalfEven(current_metres * 100, daily_usage)>>
                           ELSE <<>>,
        \* round(months_remaining, 1), in tenths
        months_remaining |-> IF daily_usage > 0
                             THEN <<RoundHalfEven(current_metres * 1000, daily_usage * 30)>>
                             ELSE <<>>,
        lead_time_months |-> lead_time,
        status |-> mesh_status(current_metres, daily_usage, lead_time)]

\* the sort key of calculate_stock_forecast:
\* (status == "OK", status == "NO_USAGE", days_remaining or inf)
ForecastKeyBefore(a, b) ==
    LET rank(x) == (IF x.status = "OK" THEN 2 ELSE 0)
                   + (IF x.status = "NO_USAGE" THEN 1 ELSE 0)
        finite(x) == x.days_remaining # <<>> /\ x.days_remaining[1] # 0
    IN \/ rank(a) < rank(b)
       \/ /\ rank(a) = rank(b)
          /\ finite(a)
          /\ (~finite(b) \/ a.days_remaining[1] < b.days_remaining[1])

\* the keys calculate_stock_forecast walks: set(inventory) | set(usage)
all_keys(mesh, usage) ==
    {MeshKey(mesh.inventory[i]) : i \in 1..Len(mesh.inventory)}
    \cup {MeshKey(usage[i]) : i \in 1..Len(usage)}

\* the orders in which a set can be iterated
Orders(S) == {o \in [1..Cardinality(S) -> S] : \A i, j \in 1..Cardinality(S) :
                                                  o[i] = o[j] => i = j}

\* Forecaster.calculate_stock_forecast, walking all_keys in the given order
calculate_stock_forecast(mesh, order) ==
    LET u == get_usage_by_product(mesh, 180)
        forecasts == [i \in 1..Len(order) |->
                         mesh_forecast_entry(mesh, u.result, order[i])]
    IN IF u.raised # "none"
       THEN [raised |-> u.raised]
       ELSE [raised |-> "none",
             entries |-> Sorted(forecasts,
                                {ab \in Records(forecasts) \X Records(forecasts) :
                                    ForecastKeyBefore(ab[1], ab[2])})]

\* the Forecaster, holding the document of the file, is asked for the mesh forecast
CalculateStockForecast ==
    /\ \E order \in Orders(all_keys(mesh_file,
                                    get_usage_by_product(mesh_file, 180).result)) :
          forecast' = calculate_stock_forecast(mesh_file, order)
    /\ call' = [op |-> "calculate_stock_forecast"]
    /\ ret' = IF forecast'.raised = "none" THEN "forecasts" ELSE forecast'.raised
    /\ UNCHANGED <<mgr, wizard_vars, sync_vars, mesh_vars, box_vars, screw_vars, saddle_vars, shopify_usage>>

\* Forecaster.get_reorder_suggestions over the list calculate_stock_forecast
\* returned: avg_monthly_usage and the target are in tenths of a metre,
\* suggested_order_metres is round(order_metres, 0)
get_reorder_suggestions(forecasts) ==
    LET urgent == SelectSeq(forecasts,
                     LAMBDA f : /\ f.status \in {"CRITICAL", "ORDER_NOW", "LOW"}
                                /\ f.avg_monthly_usage > 0)
        target_metres(f) == f.avg_monthly_usage * (f.lead_time_months + 2)
        order_metres(f) == IF target_metres(f) - f.current_metres * 10 > 0
                           THEN target_metres(f) - f.current_metres * 10 ELSE 0
    IN [i \in 1..Len(urgent) |->
          [mesh_type |-> urgent[i].mesh_type, width_mm |-> urgent[i].width_mm,
           colour |-> urgent[i].colour,
           current_metres |-> urgent[i].current_metres,
           suggested_order_metres |-> RoundHalfEven(order_metres(urgent[i]), 10),
           urgency |-> urgent[i].status]]

\* the Forecaster is asked for reorder suggestions; a forecast that raises
\* ends the call
GetReorderSuggestions ==
    /\ \E order \in Orders(all_keys(mesh_file,
                                    get_usage_by_product(mesh_file, 180).result)) :
          LET f == calculate_stock_forecast(mesh_file, order)
          IN forecast' = IF f.raised # "none" THEN f
                         ELSE [raised |-> "none", entries |-> f.entries,
                               suggestions |-> get_reorder_suggestions(f.entries)]
    /\ call' = [op |-> "get_reorder_suggestions"]
    /\ ret' = IF forecast'.raised = "none" THEN "suggestions" ELSE forecast'.raised
    /\ UNCHANGED <<mgr, wizard_vars, sync_vars, mesh_vars, box_vars, screw_vars, saddle_vars, shopify_usage>>

\* a fallback summary that counts the failed request as an order
ZeroUsage_counting_request(days) ==
    [saddles |-> 0, saddle_screws |-> 0, trim_screws |-> 0, mesh_screws |-> 0,
     trims |-> 0, order_count |-> 1, period_days |-> days]

\* the summary get_shopify_usage returns when the Shopify sync fails
ZeroUsage(days) ==
    [saddles |-> 0, saddle_screws |-> 0, trim_screws |-> 0, mesh_screws |-> 0,
     trims |-> 0, order_count |-> 0, period_days |-> days]

\* Forecaster.get_shopify_usage: the memoized summary if there is one and no
\* refresh is forced, else what the sync answered (memoized), else the zero
\* summary (the memo stays as it was)
get_shopify_usage(memo, days, force_refresh, fetch) ==
    IF memo # <<>> /\ ~force_refresh
    THEN [usage |-> memo[1], memo |-> memo]
    ELSE IF fetch.ok
    THEN [usage |-> [fetch.usage EXCEPT !.period_days = days],
          memo |-> <<[fetch.usage EXCEPT !.period_days = days]>>]
    ELSE [usage |-> ZeroUsage(days), memo |-> memo]

\* usage["daily_avg"][key] = usage[key] / days, as a fraction
daily_avg(usage, key) == [num |-> usage[key], den |-> usage.period_days]

\* current_qty / daily_usage if daily_usage > 0 else float("inf")
days_remaining_of(current_qty, daily_usage) ==
    IF daily_usage.num > 0
    THEN [inf |-> FALSE, num |-> current_qty * daily_usage.den, den |-> daily_usage.num]
    ELSE [inf |-> TRUE, num |-> 0, den |-> 1]

\* _get_status with both comparisons against the lead time made inclusive
_get_status_inclusive(days_remaining, lead_time_days) ==
    IF days_remaining.inf THEN "NO_USAGE"
    ELSE IF days_remaining.num <= lead_time_days * days_remaining.den THEN "CRITICAL"
    ELSE IF days_remaining.num <= lead_time_days * 2 * days_remaining.den THEN "ORDER_NOW"
    ELSE IF days_remaining.num <= lead_time_days * 3 * days_remaining.den THEN "LOW"
    ELSE "OK"

\* _get_status with the ORDER_NOW and LOW bands exchanged
_get_status_bands_swapped(days_remaining, lead_time_days) ==
    IF days_remaining.inf THEN "NO_USAGE"
    ELSE IF days_remaining.num < lead_time_days * days_remaining.den THEN "CRITICAL"
    ELSE IF days_remaining.num < lead_time_days * 2 * days_remaining.den THEN "LOW"
    ELSE IF days_remaining.num < lead_time_days * 3 * days_remaining.den THEN "ORDER_NOW"
    ELSE "OK"

\* Forecaster._get_status
_get_status(days_remaining, lead_time_days) ==
    IF days_remaining.inf THEN "NO_USAGE"
    ELSE IF days_remaining.num < lead_time_days * days_remaining.den THEN "CRITICAL"
    ELSE IF days_remaining.num < lead_time_days * 2 * days_remaining.den THEN "ORDER_NOW"
    ELSE IF days_remaining.num < lead_time_days * 3 * days_remaining.den THEN "LOW"
    ELSE "OK"

\* the fields every component forecast entry carries: round(daily_usage, 1)
\* in tenths, round(days_remaining, 0) or None (<<>>), and a status
EntryTail(current_qty, daily_usage, status) ==
    LET days_remaining == days_remaining_of(current_qty, daily_usage)
    IN [current_qty |-> current_qty,
        daily_usage |-> RoundHalfEven(daily_usage.num * 10, daily_usage.den),
        days_remaining |-> IF days_remaining.inf THEN <<>>
                           ELSE <<RoundHalfEven(days_remaining.num, days_remaining.den)>>,
        status |-> status]

Positive(e) == e.quantity > 0

\* Forecaster._forecast_saddles
_forecast_saddles(saddles, coils, daily_usage) ==
    LET stock == SelectSeq(saddles.inventory, Positive)
        estimated_saddles(coil) == Trunc(coil.current_weight_kg * 73 * 66, 100)
        yielding == SelectSeq(coils.inventory,
                       LAMBDA coil :
                          /\ ~(coil.status # "in_use" /\ coil.current_weight_kg > 0)
                          /\ coil.saddle_type # "trim"
                          /\ estimated_saddles(coil) > 0)
    IN [i \in 1..Len(stock) |->
          [type |-> "saddle", saddle_type |-> stock[i].saddle_type,
           colour |-> stock[i].colour,
           entry |-> EntryTail(stock[i].quantity, daily_usage,
                        _get_status(days_remaining_of(stock[i].quantity, daily_usage), 14))]]
       \o
       [i \in 1..Len(yielding) |->
          [type |-> "coil_yield", saddle_type |-> yielding[i].saddle_type,
           colour |-> yielding[i].colour,
           coil_weight_kg |-> yielding[i].current_weight_kg,
           entry |-> EntryTail(estimated_saddles(yielding[i]), daily_usage, "COIL")]]

\* usage_key_map.get(screw_type, "saddle_screws")
usage_key(screw_type) ==
    IF screw_type = "saddle_screw" THEN "saddle_screws"
    ELSE IF screw_type = "trim_screw" THEN "trim_screws"
    ELSE IF screw_type = "mesh_screw" THEN "mesh_screws"
    ELSE "saddle_screws"

\* Forecaster._forecast_screws
_forecast_screws(screws, usage) ==
    LET stock == SelectSeq(screws.inventory, Positive)
    IN [i \in 1..Len(stock) |->
          LET daily_usage == daily_avg(usage, usage_key(stock[i].screw_type))
          IN [screw_type |-> stock[i].screw_type, colour |-> stock[i].colour,
              entry |-> EntryTail(stock[i].quantity, daily_usage,
                           _get_status(days_remaining_of(stock[i].quantity, daily_usage), 7))]]

\* Forecaster._forecast_trims
_forecast_trims(saddles, coils, daily_usage) ==
    LET stock == SelectSeq(saddles.inventory,
                           LAMBDA e : e.saddle_type = "trim" /\ e.quantity > 0)
        estimated_trims(coil) == Trunc(coil.current_weight_kg * 84, 10)
        yielding == SelectSeq(coils.inventory,
                       LAMBDA coil : /\ coil.saddle_type = "trim"
                                     /\ coil.current_weight_kg > 0
                                     /\ estimated_trims(coil) > 0)
    IN [i \in 1..Len(stock) |->
          [type |-> "trim", colour |-> stock[i].colour,
           entry |-> EntryTail(stock[i].quantity, daily_usage,
                        _get_status(days_remaining_of(stock[i].quantity, daily_usage), 14))]]
       \o
       [i \in 1..Len(yielding) |->
          [type |-> "coil_yield", colour |-> yielding[i].colour,
           coil_weight_kg |-> yielding[i].current_weight_kg,
           entry |-> EntryTail(estimated_trims(yielding[i]), daily_usage, "COIL")]]

\* usage_ratios.get(box_type, 0.33), in hundredths
usage_ratio(box_type) ==
    IF box_type = "small_tube" THEN 50
    ELSE IF box_type = "large_tube" THEN 30
    ELSE IF box_type = "saddle_box" THEN 20
    ELSE 33

\* daily_orders * usage_ratios.get(box_type, 0.33) with
\* daily_orders = order_count / period_days, as a fraction
box_daily_usage(usage, box_type) ==
    IF usage.period_days > 0
    THEN [num |-> usage.order_count * usage_ratio(box_type), den |-> usage.period_days * 100]
    ELSE [num |-> 0, den |-> 1]

\* Forecaster._forecast_boxes, given the summary its own get_shopify_usage() returns
_forecast_boxes(boxes, usage) ==
    LET stock == SelectSeq(boxes.inventory, Positive)
    IN [i \in 1..Len(stock) |->
          LET daily_usage == box_daily_usage(usage, stock[i].box_type)
          IN [box_type |-> stock[i].box_type,
              entry |-> EntryTail(stock[i].quantity, daily_usage,
                           _get_status(days_remaining_of(stock[i].quantity, daily_usage), 7))]]

\* Forecaster.get_component_forecast: fetch is what the sync answers to the
\* first get_shopify_usage call, fetch_boxes what it answers to _forecast_boxes
get_component_forecast(memo, saddles, coils, screws, boxes, days, fetch, fetch_boxes) ==
    LET first == get_shopify_usage(memo, days, FALSE, fetch)
        usage == first.usage
        second == get_shopify_usage(first.memo, 180, FALSE, fetch_boxes)
    IN [memo |-> second.memo,
        forecasts |->
          [raised |-> "none",
           saddles |-> _forecast_saddles(saddles, coils, daily_avg(usage, "saddles")),
           screws |-> _forecast_screws(screws, usage),
           trims |-> _forecast_trims(saddles, coils, daily_avg(usage, "trims")),
           boxes |-> _forecast_boxes(boxes, second.usage),
           usage_summary |->
             [period_days |-> usage.period_days, order_count |-> usage.order_count,
              total_saddles |-> usage.saddles,
              total_saddle_screws |-> usage.saddle_screws,
              total_trim_screws |-> usage.trim_screws,
              total_trims |-> usage.trims]]]

\* how a get_shopify_usage() call without force_refresh came to its summary:
\* from the memo, from the sync, or from the except branch after the sync raised
SyncOutcome(memo, fetch) ==
    IF memo # <<>> THEN "memoized" ELSE IF fetch.ok THEN "answered" ELSE "raised"

\* the Forecaster, holding the documents of the files, is asked for the
\* component forecast
GetComponentForecast(days, fetch, fetch_boxes) ==
    /\ LET r == get_component_forecast(shopify_usage, saddle_file, coil_file, screw_file,
                                       box_file, days, fetch, fetch_boxes)
       IN /\ forecast' = r.forecasts
          /\ shopify_usage' = r.memo
    /\ call' = [op |-> "get_component_forecast", days |-> days,
                sync |-> SyncOutcome(shopify_usage, fetch),
                sync_boxes |-> SyncOutcome(get_shopify_usage(shopify_usage, days,
                                                             FALSE, fetch).memo,
                                           fetch_boxes)]
    /\ ret' = "forecasts"
    /\ UNCHANGED <<mgr, wizard_vars, sync_vars, mesh_vars, box_vars, screw_vars, saddle_vars>>

\* Forecaster.reload_data: the documents are read again, the summary forgotten
ReloadData ==
    /\ shopify_usage # <<>>
    /\ shopify_usage' = <<>>
    /\ call' = [op |-> "reload_data"]
    /\ ret' = "none"
    /\ UNCHANGED <<mgr, wizard_vars, sync_vars, mesh_vars, box_vars, screw_vars, saddle_vars, forecast>>

(* --------------------------- Shopify sync ---------------------------- *)
\* timedelta(hours=1), in half hours
Hour == 2

\* ShopifySync.fetch_orders: the cached list while the cache is younger than
\* an hour and no refresh is forced; else the shipped orders created in the
\* last `days` days as the store answers (none when it answers with errors),
\* written to the cache; a request that fails raises
fetch_orders(cached_orders, orders_in_shop, utcnow, days, force_refresh, upstream) ==
    IF /\ ~force_refresh
       /\ cached_orders.last_synced # <<>>
       /\ utcnow - cached_orders.last_synced[1] < Hour
    THEN [raised |-> FALSE, orders |-> cached_orders.orders, cache |-> cached_orders,
          queried |-> FALSE]
    ELSE IF upstream = "exception"
    THEN [raised |-> TRUE, orders |-> <<>>, cache |-> cached_orders, queried |-> TRUE]
    ELSE LET all_orders == IF upstream = "errors" THEN <<>>
                           ELSE SelectSeq(orders_in_shop, LAMBDA o : o.age_days <= days)
         IN [raised |-> FALSE, orders |-> all_orders,
             cache |-> [orders |-> all_orders, last_synced |-> <<utcnow>>,
                        days_fetched |-> days],
             queried |-> TRUE]

\* the totals ShopifySync.calculate_component_usage adds up over the orders
\* fetch_orders gave it; daily_avg is each total / days (see daily_avg)
calculate_component_usage(orders, days) ==
    LET total(key) == SumSeq([i \in 1..Len(orders) |-> orders[i].components[key]])
    IN [saddles |-> total("saddles"), saddle_screws |-> total("saddle_screws"),
        trim_screws |-> total("trim_screws"), mesh_screws |-> total("mesh_screws"),
        trims |-> total("trims"), order_count |-> Len(orders), period_days |-> days]

\* Forecaster.get_shopify_usage(days, force_refresh) with the ShopifySync it
\* builds: calculate_component_usage(days=days) calls fetch_orders without
\* force_refresh
GetShopifyUsage(days, force_refresh, upstream) ==
    LET memoized == shopify_usage # <<>> /\ ~force_refresh
        f == fetch_orders(cache_file, shop_orders, now, days, FALSE, upstream)
        r == get_shopify_usage(shopify_usage, days, force_refresh,
                               [ok |-> ~f.raised,
                                usage |-> calculate_component_usage(f.orders, days)])
    IN /\ forecast' = [raised |-> "none", usage |-> r.usage]
       /\ shopify_usage' = r.memo
       /\ cache_file' = IF memoized THEN cache_file ELSE f.cache
       /\ call' = [op |-> "get_shopify_usage", days |-> days,
                   force_refresh |-> force_refresh, upstream |-> upstream,
                   fetched |-> ~memoized, queried |-> ~memoized /\ f.queried]
       /\ ret' = "usage"
       /\ UNCHANGED <<mgr, wizard_vars, mesh_vars, box_vars, screw_vars, saddle_vars, now, shop_orders>>

\* the Forecasting page's sync buttons: ShopifySync().calculate_component_usage
\* for the chosen period, then st.cache_resource.clear() (the next render
\* builds a new Forecaster); a failure is shown and nothing is cleared
SyncOrdersNow(days, upstream) ==
    LET f == fetch_orders(cache_file, shop_orders, now, days, FALSE, upstream)
    IN /\ forecast' = IF f.raised THEN [raised |-> "Exception"]
                      ELSE [raised |-> "none",
                            usage |-> calculate_component_usage(f.orders, days)]
       /\ cache_file' = f.cache
       /\ shopify_usage' = IF f.raised THEN shopify_usage ELSE <<>>
       /\ call' = [op |-> "calculate_component_usage", days |-> days,
                   force_refresh |-> FALSE, upstream |-> upstream,
                   fetched |-> TRUE, queried |-> f.queried]
       /\ ret' = IF f.raised THEN "Exception" ELSE "usage"
       /\ UNCHANGED <<mgr, wizard_vars, mesh_vars, box_vars, screw_vars, saddle_vars, now, shop_orders>>

\* half an hour passes
Tick ==
    /\ now < MaxClock
    /\ now' = now + 1
    /\ call' = [op |-> "tick"]
    /\ ret' = "none"
    /\ UNCHANGED <<mgr, wizard_vars, mesh_vars, box_vars, screw_vars, saddle_vars, forecast_vars,
                   cache_file, shop_orders>>

\* the store ships an order that was created age_days days ago
ShipOrder(age_days, components) ==
    /\ Len(shop_orders) < MaxShipped
    /\ shop_orders' = Append(shop_orders, [order_number |-> Len(shop_orders) + 1,
                                           age_days |-> age_days,
                                           components |-> components])
    /\ call' = [op |-> "ship_order"]
    /\ ret' = "none"
    /\ UNCHANGED <<mgr, wizard_vars, mesh_vars, box_vars, screw_vars, saddle_vars, forecast_vars,
                   now, cache_file>>

(* -------------------------- stocktake wizard ------------------------- *)
\* StocktakeState.initialize: the items are numbered by their ids
initialize(n) ==
    [items |-> [i \in 1..n |-> [id |-> i]],
     quantities |-> [i \in 1..n |-> <<>>],
     current_index |-> 0]

\* StocktakeState.set_quantity: self.quantities[item_id] = quantity; the ids
\* of the dictionary are 1..Len(quantities)
set_quantity(q, item_id, quantity) ==
    [id \in 1..(IF item_id > Len(q) THEN item_id ELSE Len(q)) |->
        IF id = item_id THEN <<quantity>>
        ELSE IF id <= Len(q) THEN q[id] ELSE <<>>]

\* StocktakeState.skip_current
skip_current(items, q, index) ==
    IF index < Len(items) THEN set_quantity(q, items[index + 1].id, 0) ELSE q

\* next_item that steps while the cursor is not past the last item
next_item_to_end(items, index) ==
    IF index <= Len(items) - 1
    THEN [current_index |-> index + 1, ret |-> "True"]
    ELSE [current_index |-> index, ret |-> "False"]

\* StocktakeState.next_item
next_item(items, index) ==
    IF index < Len(items) - 1
    THEN [current_index |-> index + 1, ret |-> "True"]
    ELSE [current_index |-> index, ret |-> "False"]

\* StocktakeState.previous_item
previous_item(items, index) ==
    IF index > 0
    THEN [current_index |-> index - 1, ret |-> "True"]
    ELSE [current_index |-> index, ret |-> "False"]

\* StocktakeState.go_to_item
go_to_item(items, index, target) ==
    IF 0 <= target /\ target < Len(items)
    THEN [current_index |-> target, ret |-> "True"]
    ELSE [current_index |-> index, ret |-> "False"]

Initialize(n) ==
    /\ wizard_items' = initialize(n).items
    /\ wizard_quantities' = initialize(n).quantities
    /\ current_index' = initialize(n).current_index
    /\ call' = [op |-> "initialize", n |-> n]
    /\ ret' = "none"
    /\ UNCHANGED <<mgr, mesh_vars, box_vars, screw_vars, saddle_vars, forecast_vars,
                   sync_vars>>

SetQuantity(item_id, quantity) ==
    /\ wizard_quantities' = set_quantity(wizard_quantities, item_id, quantity)
    /\ call' = [op |-> "set_quantity", item_id |-> item_id, quantity |-> quantity]
    /\ ret' = "none"
    /\ UNCHANGED <<mgr, mesh_vars, box_vars, screw_vars, saddle_vars, forecast_vars,
                   sync_vars, wizard_items, current_index>>

SkipCurrent ==
    /\ wizard_quantities' = skip_current(wizard_items, wizard_quantities, current_index)
    /\ call' = [op |-> "skip_current"]
    /\ ret' = "none"
    /\ UNCHANGED <<mgr, mesh_vars, box_vars, screw_vars, saddle_vars, forecast_vars,
                   sync_vars, wizard_items, current_index>>

NextItem ==
    /\ current_index' = next_item(wizard_items, current_index).current_index
    /\ call' = [op |-> "next_item"]
    /\ ret' = next_item(wizard_items, current_index).ret
    /\ UNCHANGED <<mgr, mesh_vars, box_vars, screw_vars, saddle_vars, forecast_vars,
                   sync_vars, wizard_items, wizard_quantities>>

PreviousItem ==
    /\ current_index' = previous_item(wizard_items, current_index).current_index
    /\ call' = [op |-> "previous_item"]
    /\ ret' = previous_item(wizard_items, current_index).ret
    /\ UNCHANGED <<mgr, mesh_vars, box_vars, screw_vars, saddle_vars, forecast_vars,
                   sync_vars, wizard_items, wizard_quantities>>

GoToItem(index) ==
    /\ current_index' = go_to_item(wizard_items, current_index, index).current_index
    /\ call' = [op |-> "go_to_item", index |-> index]
    /\ ret' = go_to_item(wizard_items, current_index, index).ret
    /\ UNCHANGED <<mgr, mesh_vars, box_vars, screw_vars, saddle_vars, forecast_vars,
                   sync_vars, wizard_items, wizard_quantities>>

(* --------------------------- specifications -------------------------- *)
Managers == {"mesh", "box", "screw", "saddle"}

\* target widths of a cut: two halves, one narrower strip, the whole width
CutArgs == {<<250, 250>>, <<250>>, <<500>>}

\* coil weights and production weights, in kg
CoilWeights     == {2}
PositiveWeights == {1, 2, 3}
AnyWeights      == {-1, 0, 1, 2, 3}
CoilIds         == 1..(MaxCoils + 1)
ProducedArgs    == {<<>>, <<1>>}

\* every data file starts empty and every manager starts from its file
Init ==
    /\ mgr \in Managers
    /\ mesh_data = EmptyMesh /\ mesh_file = EmptyMesh /\ next_id = 0
    /\ box_data = EmptyStock /\ box_file = EmptyStock
    /\ screw_data = EmptyStock /\ screw_file = EmptyStock
    /\ saddle_data = EmptySaddles /\ saddle_file = EmptySaddles
    /\ coil_data = EmptyCoils /\ coil_file = EmptyCoils
    /\ shopify_usage = <<>>
    /\ forecast = NoForecast
    /\ SyncIdle
    /\ WizardIdle
    /\ call = [op |-> "init"]
    /\ ret = "none"

MeshStockOps ==
    \/ \E p \in MeshProducts, q \in QtyArgs : AddRoll(p, q)
    \/ \E p \in MeshProducts, q \in QtyArgs : RemoveRoll(p, q)
    \/ LoadMesh

ComponentStockOps ==
    \/ \E t \in BoxTypes, q \in QtyArgs : BoxAddStock(t, q)
    \/ \E t \in BoxTypes, q \in QtyArgs : BoxRemoveStock(t, q)
    \/ \E t \in ScrewTypes, c \in Colours, q \in QtyArgs : ScrewAddStock(t, c, q)
    \/ \E t \in ScrewTypes, c \in Colours, q \in QtyArgs : ScrewRemoveStock(t, c, q)
    \/ \E t \in SaddleTypes, c \in Colours, q \in QtyArgs : RemoveSaddles(t, c, q)

\* the stock operations of the four managers, called with positive arguments;
\* saddles reach the stock through production runs
Next ==
    \/ MeshStockOps
    \/ ComponentStockOps
    \/ \E c \in Colours, w \in CoilWeights : AddCoil("corrugated", c, w)
    \/ \E id \in CoilIds, w \in PositiveWeights, n \in ProducedArgs :
          LogProduction(id, w, n)

Spec == Init /\ [][Next]_vars

\* the mesh manager with its incoming orders: every roll in stock comes from
\* an order that was received
InitMesh == Init /\ mgr = "mesh"

NextOrders ==
    \/ \E p \in MeshProducts, q \in QtyArgs : AddIncomingOrder(p, q)
    \/ \E id \in 1..(MaxOrders + 1) : MarkOrderReceived(id)
    \/ \E id \in 1..(MaxOrders + 1) : CancelIncomingOrder(id)

SpecOrders == InitMesh /\ [][NextOrders]_vars

\* the mesh manager cutting rolls into narrower ones
NextCutting ==
    \/ \E p \in MeshProducts, q \in QtyArgs : AddRoll(p, q)
    \/ \E p \in MeshProducts, q \in QtyArgs : RemoveRoll(p, q)
    \/ \E p \in MeshProducts, tw \in CutArgs : CutRoll(p, tw)

SpecCutting == InitMesh /\ [][NextCutting]_vars

\* the saddle types add_saddles is called with: those the stocktake counts,
\* and klip_lok
StockedSaddleTypes == SaddleTypes \cup {"klip_lok"}

\* the stock operations interleaved with stocktakes and restarts of the managers
NextStocktake ==
    \/ MeshStockOps
    \/ ComponentStockOps
    \/ \E t \in StockedSaddleTypes, c \in Colours, q \in QtyArgs : AddSaddles(t, c, q)
    \/ \E mt \in MeshTypes, q \in StocktakeCounts :
          ApplyMeshStocktake(MeshCategory(mt), <<q>>)
    \/ \E q1 \in StocktakeCounts, q2 \in StocktakeCounts : ApplyBoxStocktake(<<q1, q2>>)
    \/ \E c \in Colours, q \in StocktakeCounts : ApplyScrewStocktake(c, q)
    \/ \E t \in SaddleTypes, c \in Colours, q \in StocktakeCounts :
          ApplySaddleStocktake(t, c, q)
    \/ LoadBox
    \/ LoadScrew
    \/ LoadSaddle

SpecStocktake == Init /\ [][NextStocktake]_vars

\* the saddle manager's coils, with any weight a caller may pass
InitProduction == Init /\ mgr = "saddle"

\* the coil types of the configuration and one it does not hold, and the
\* weights an estimate is asked for
CoilTypes == {"corrugated", "trim", "trimdek"}
EstimateWeights == {0, 1, 2, 100}

NextProduction ==
    \/ \E c \in Colours, w \in CoilWeights : AddCoil("corrugated", c, w)
    \/ \E id \in CoilIds, w \in AnyWeights, n \in ProducedArgs :
          LogProduction(id, w, n)

SpecProduction == InitProduction /\ [][NextProduction]_vars

\* the yield estimator: coils of every type, estimates asked for any type or
\* none, and production logged with the estimate as its count
NextEstimate ==
    \/ \E t \in CoilTypes, c \in Colours, w \in CoilWeights : AddCoil(t, c, w)
    \/ \E w \in EstimateWeights, t \in {<<>>} \cup {<<x>> : x \in CoilTypes} :
          CalculateProductionEstimate(w, t)
    \/ \E id \in CoilIds, w \in PositiveWeights : LogProduction(id, w, <<>>)

SpecEstimate == InitProduction /\ [][NextEstimate]_vars

\* the forecaster over files as the managers and the stocktake leave them
SeqsUpTo(S, n) == UNION {[1..k -> S] : k \in 0..n}

\* a single unit, and quantities on both sides of every status threshold the
\* summaries reach
ForecastQuantities == {0, 1, 6, 7, 13, 14, 20, 21, 27, 28, 41, 42}

\* usage events as remove_roll logged them, one day and 200 days ago
AgedUsage ==
    {[MeshUsage(p, 1, "order") EXCEPT !.date = UtcStamp(d)] :
        p \in MeshProducts, d \in {1, 200}}

ForecastMeshFiles ==
    {[EmptyMesh EXCEPT !.inventory = inv, !.usage_history = hist] :
        inv \in SeqsUpTo({MeshEntry(p, q) : p \in MeshProducts, q \in QtyArgs}, MaxInv),
        hist \in SeqsUpTo(AgedUsage, MaxHist)}

ForecastBoxFiles ==
    {[EmptyStock EXCEPT !.inventory = <<[box_type |-> t, quantity |-> q]>>] :
        t \in BoxTypes \cup {"flat_pack"}, q \in ForecastQuantities}

ForecastScrewFiles ==
    {[EmptyStock EXCEPT !.inventory = <<[screw_type |-> t, colour |-> c, quantity |-> q]>>] :
        t \in {"saddle_screw", "trim_screw", "screws"}, c \in Colours,
        q \in ForecastQuantities}

ForecastSaddleFiles ==
    {[EmptySaddles EXCEPT !.inventory = <<[saddle_type |-> t, colour |-> c, quantity |-> q]>>] :
        t \in {"corrugated", "trim"}, c \in Colours, q \in ForecastQuantities}

\* a coil as add_coil and log_production leave it
ForecastCoilFiles ==
    {EmptyCoils} \cup
    {[inventory |-> <<[id |-> 1, saddle_type |-> t, colour |-> "Monument",
                       initial_weight_kg |-> 2, current_weight_kg |-> w,
                       estimated_yield |-> expected_output(2, t),
                       status |-> IF w = 2 THEN "in_stock"
                                  ELSE IF w = 0 THEN "depleted" ELSE "in_use"]>>] :
        t \in {"corrugated", "trim"}, w \in {0, 1, 2}}

\* what the Shopify sync can answer: a failure, or a summary of shipped orders
UsageSummaries ==
    {ZeroUsage(180),
     [saddles |-> 180, saddle_screws |-> 360, trim_screws |-> 180, mesh_screws |-> 0,
      trims |-> 180, order_count |-> 360, period_days |-> 180],
     [saddles |-> 360, saddle_screws |-> 180, trim_screws |-> 360, mesh_screws |-> 0,
      trims |-> 360, order_count |-> 180, period_days |-> 180]}

Fetches == {[ok |-> FALSE, usage |-> ZeroUsage(180)]}
           \cup {[ok |-> TRUE, usage |-> u] : u \in UsageSummaries}

InitForecast ==
    /\ mgr \in Managers
    /\ mesh_file \in (IF mgr = "mesh" THEN ForecastMeshFiles ELSE {EmptyMesh})
    /\ box_file \in (IF mgr = "box" THEN ForecastBoxFiles ELSE {EmptyStock})
    /\ screw_file \in (IF mgr = "screw" THEN ForecastScrewFiles ELSE {EmptyStock})
    /\ saddle_file \in (IF mgr = "saddle" THEN ForecastSaddleFiles ELSE {EmptySaddles})
    /\ coil_file \in (IF mgr = "saddle" THEN ForecastCoilFiles ELSE {EmptyCoils})
    /\ mesh_data = mesh_file /\ next_id = 0
    /\ box_data = box_file
    /\ screw_data = screw_file
    /\ saddle_data = saddle_file
    /\ coil_data = coil_file
    /\ shopify_usage = <<>>
    /\ forecast = NoForecast
    /\ SyncIdle
    /\ WizardIdle
    /\ call = [op |-> "init"]
    /\ ret = "none"

\* analysis periods a caller may pass, and the groupings
UsageDays == {-30, 0, 180, 365}
GroupBys == {"day", "week", "month", "year"}

NextForecast ==
    \/ CalculateStockForecast
    \/ GetReorderSuggestions
    \/ \E fetch \in Fetches, fetch_boxes \in Fetches :
          GetComponentForecast(180, fetch, fetch_boxes)
    \/ ReloadData

SpecForecast == InitForecast /\ [][NextForecast]_vars

\* the usage queries of the forecaster over the same files
NextUsage ==
    \/ \E days \in UsageDays, group_by \in GroupBys : GetUsageByPeriod(days, group_by)
    \/ \E days \in UsageDays : GetUsageByProduct(days)

SpecUsage == InitForecast /\ [][NextUsage]_vars

\* the Shopify sync and the forecaster's memo of it, over a few half hours
InitShopify == Init /\ mgr = "saddle"

\* the periods the page offers: 6 and 12 months
SyncDays == {180, 360}

\* what a request to the store can do: answer, answer with errors, fail
Upstreams == {"ok", "errors", "exception"}

\* the components an order's line items resolve to in the kit breakdown
OrderComponents ==
    {[saddles |-> 2, saddle_screws |-> 2, trim_screws |-> 1, mesh_screws |-> 1, trims |-> 1]}

\* an order created ten days ago, and one created 200 days ago
OrderAges == {10, 200}

NextShopify ==
    \/ \E days \in SyncDays, force_refresh \in BOOLEAN, upstream \in Upstreams :
          GetShopifyUsage(days, force_refresh, upstream)
    \/ \E days \in SyncDays, upstream \in Upstreams : SyncOrdersNow(days, upstream)
    \/ ReloadData
    \/ Tick
    \/ \E a \in OrderAges, c \in OrderComponents : ShipOrder(a, c)

SpecShopify == InitShopify /\ [][NextShopify]_vars

\* the stocktake wizard's state: started with any number of items, then
\* walked with any index and counted with the quantities of a count
InitWizard == Init /\ mgr = "mesh"

NextWizard ==
    \/ \E n \in 0..MaxItems : Initialize(n)
    \/ \E id \in 1..MaxItems, q \in StocktakeCounts : SetQuantity(id, q)
    \/ SkipCurrent
    \/ NextItem
    \/ PreviousItem
    \/ \E index \in -1..(MaxItems + 1) : GoToItem(index)

SpecWizard == InitWizard /\ [][NextWizard]_vars

(* ------------------------------ properties --------------------------- *)
Quantities(data) == [i \in 1..Len(data.inventory) |-> data.inventory[i].quantity]

\* C1: a MeshManager.remove_roll call that asks for more rolls than the
\* matching stock holds returns False and leaves the manager's document as it
\* was (no record decremented, no usage event appended) and the file as it was
C1_RejectedRemoveRollChangesNothing ==
    [][(/\ call'.op = "remove_roll"
        /\ get_stock_level(mesh_data, call'.product) < call'.quantity)
       => (ret' = "False" /\ mesh_data' = mesh_data /\ mesh_file' = mesh_file)]_vars

\* C2: a box, screw or saddle removal that asks for more than the current
\* quantity of its key (none when no record matches) returns False and leaves
\* the inventory and usage_history, in memory and on file, as they were
C2_RejectedRemovalChangesNothing ==
    [][/\ (/\ call'.op = "box.remove_stock"
            /\ get_stock_by_type(box_data, call'.type) < call'.quantity)
           => (ret' = "False" /\ box_data' = box_data /\ box_file' = box_file)
       /\ (/\ call'.op = "screw.remove_stock"
            /\ get_stock_by_type_and_colour(screw_data, call'.type, call'.colour)
                  < call'.quantity)
           => (ret' = "False" /\ screw_data' = screw_data /\ screw_file' = screw_file)
       /\ (/\ call'.op = "remove_saddles"
            /\ get_saddle_quantity(saddle_data, call'.type, call'.colour)
                  < call'.quantity)
           => (ret' = "False" /\ saddle_data' = saddle_data
                               /\ saddle_file' = saddle_file)]_vars

\* a removal of 2 is refused on stock of 1, after an earlier removal was logged
C2_Witness ==
    \/ /\ call.op = "box.remove_stock" /\ ret = "False"
       /\ get_stock_by_type(box_data, call.type) = 1
       /\ box_data.usage_history # <<>>
    \/ /\ call.op = "screw.remove_stock" /\ ret = "False"
       /\ get_stock_by_type_and_colour(screw_data, call.type, call.colour) = 1
       /\ screw_data.usage_history # <<>>
    \/ /\ call.op = "remove_saddles" /\ ret = "False"
       /\ get_saddle_quantity(saddle_data, call.type, call.colour) = 1
       /\ saddle_data.usage_history # <<>>

NonNegative(data) == \A i \in 1..Len(data.inventory) : data.inventory[i].quantity >= 0

\* no stock record, in memory or on file, has a negative quantity
NonNegativeStock ==
    /\ NonNegative(mesh_data) /\ NonNegative(mesh_file)
    /\ NonNegative(box_data) /\ NonNegative(box_file)
    /\ NonNegative(screw_data) /\ NonNegative(screw_file)
    /\ NonNegative(saddle_data) /\ NonNegative(saddle_file)

RemovalOps == {"remove_roll", "box.remove_stock", "screw.remove_stock", "remove_saddles"}

\* C3: with positive quantity arguments no stock record is ever negative, and
\* a removal that is refused has changed no record's quantity (it is rejected,
\* neither clamped at zero nor applied)
C3_NonNegativeAndRejectedNotClamped ==
    /\ []NonNegativeStock
    /\ [][(call'.op \in RemovalOps /\ ret' = "False")
           => /\ Quantities(mesh_data') = Quantities(mesh_data)
              /\ Quantities(box_data') = Quantities(box_data)
              /\ Quantities(screw_data') = Quantities(screw_data)
              /\ Quantities(saddle_data') = Quantities(saddle_data)]_vars

\* C4: the stored usage_history of every category only grows: across every
\* operation, a stocktake included, the list before is a prefix of the list after
C4_UsageHistoryAppendOnly ==
    [][/\ IsPrefix(mesh_file.usage_history, mesh_file'.usage_history)
       /\ IsPrefix(box_file.usage_history, box_file'.usage_history)
       /\ IsPrefix(screw_file.usage_history, screw_file'.usage_history)
       /\ IsPrefix(saddle_file.usage_history, saddle_file'.usage_history)]_vars

CoilOf(coils, coil_id) ==
    coils.inventory[FirstIndex(coils.inventory, {c \in Records(coils.inventory) : c.id = coil_id})]
HasCoil(coils, coil_id) == \E i \in 1..Len(coils.inventory) : coils.inventory[i].id = coil_id

CoilWeightsNonNegative(coils) ==
    \A i \in 1..Len(coils.inventory) : coils.inventory[i].current_weight_kg >= 0

\* C5: log_production with weight_used_kg above the coil's current weight
\* raises ValueError('Insufficient material') and changes neither the coils,
\* nor the production history, nor the saddle stock; no coil's current weight
\* is ever negative
C5_InsufficientMaterialChangesNothing ==
    /\ [](CoilWeightsNonNegative(coil_data) /\ CoilWeightsNonNegative(coil_file))
    /\ [][(/\ call'.op = "log_production"
            /\ HasCoil(coil_data, call'.coil_id)
            /\ call'.weight_used_kg > CoilOf(coil_data, call'.coil_id).current_weight_kg)
           => /\ ret' = "ValueError: Insufficient material"
              /\ coil_data' = coil_data /\ coil_file' = coil_file
              /\ saddle_data' = saddle_data /\ saddle_file' = saddle_file]_vars

\* a run is refused on a coil that an earlier run has partly used
C5_Witness ==
    /\ call.op = "log_production"
    /\ ret = "ValueError: Insufficient material"
    /\ saddle_data.production_history # <<>>
    /\ \E i \in 1..Len(coil_data.inventory) :
          /\ coil_data.inventory[i].id = call.coil_id
          /\ coil_data.inventory[i].current_weight_kg > 0

\* C6: every coil's status follows from its weights: depleted iff current <= 0,
\* in_stock iff current = initial, in_use iff 0 < current < initial
C6_StatusDerivedFromWeight ==
    \A i \in 1..Len(coil_data.inventory) :
        LET c == coil_data.inventory[i]
        IN /\ (c.status = "depleted") <=> (c.current_weight_kg <= 0)
           /\ (c.status = "in_stock") <=> (c.current_weight_kg = c.initial_weight_kg)
           /\ (c.status = "in_use") <=> (/\ 0 < c.current_weight_kg
                                         /\ c.current_weight_kg < c.initial_weight_kg)

\* C7: a successful production run never increases a coil's current weight
\* and never leaves it above the coil's initial weight
C7_CoilWeightNeverIncreases ==
    [][(call'.op = "log_production" /\ ret' = "production_record")
       => \A i \in 1..Len(coil_data.inventory) :
             /\ coil_data'.inventory[i].current_weight_kg
                   <= coil_data.inventory[i].current_weight_kg
             /\ coil_data'.inventory[i].current_weight_kg
                   <= coil_data'.inventory[i].initial_weight_kg]_vars

RECURSIVE ReceivedQuantity(_)
ReceivedQuantity(orders) ==
    IF orders = <<>> THEN 0
    ELSE (IF Head(orders).status = "received" THEN Head(orders).quantity ELSE 0)
         + ReceivedQuantity(Tail(orders))

IsOrdered(data, order_id) ==
    \E i \in 1..Len(data.incoming_orders) :
        /\ data.incoming_orders[i].id = order_id
        /\ data.incoming_orders[i].status = "ordered"

OrderWithId(data, order_id) ==
    data.incoming_orders[FirstIndex(data.incoming_orders, {o \in Records(data.incoming_orders) : o.id = order_id})]

\* C8: mark_order_received on an 'ordered' order adds the order's quantity to
\* the stock of its product once, and marks the order 'received' with a
\* received_date; mark_order_received and cancel_incoming_order on an order
\* that is received already or on an unknown id return False and change
\* nothing; the rolls in stock are those of the received orders, each counted once
C8_OrderReceivedOnce ==
    /\ [](SumSeq(Quantities(mesh_data)) = ReceivedQuantity(mesh_data.incoming_orders))
    /\ [][/\ (call'.op = "mark_order_received" /\ IsOrdered(mesh_data, call'.order_id))
               => LET o == OrderWithId(mesh_data, call'.order_id)
                      o2 == OrderWithId(mesh_data', call'.order_id)
                  IN /\ ret' = "True"
                     /\ get_stock_level(mesh_data', OrderProduct(o))
                           = get_stock_level(mesh_data, OrderProduct(o)) + o.quantity
                     /\ SumSeq(Quantities(mesh_data'))
                           = SumSeq(Quantities(mesh_data)) + o.quantity
                     /\ o2.status = "received"
                     /\ o2.received_date # "none"
                     /\ mesh_file' = mesh_data'
           /\ (/\ call'.op \in {"mark_order_received", "cancel_incoming_order"}
                /\ ~IsOrdered(mesh_data, call'.order_id))
               => (ret' = "False" /\ mesh_data' = mesh_data /\ mesh_file' = mesh_file)]_vars

\* an order that was received is marked received a second time, and refused
C8_Witness ==
    /\ call.op = "mark_order_received"
    /\ ret = "False"
    /\ \E i \in 1..Len(mesh_data.incoming_orders) :
          /\ mesh_data.incoming_orders[i].id = call.order_id
          /\ mesh_data.incoming_orders[i].status = "received"
    /\ mesh_data.inventory # <<>>

\* metres of a product key used within the last `days` days, from the log itself
WindowMetres(mesh, key, days) ==
    LET hist == mesh.usage_history
    IN SumSeq([i \in 1..Len(hist) |->
                 IF MeshKey(hist[i]) = key /\ hist[i].date.days_ago <= days
                 THEN hist[i].quantity * hist[i].length_m ELSE 0])

MeshMetres(mesh, key) ==
    LET inv == mesh.inventory
    IN SumSeq([i \in 1..Len(inv) |->
                 IF MeshKey(inv[i]) = key THEN inv[i].quantity * inv[i].length_m ELSE 0])

MeshKeys(mesh) ==
    {MeshKey(mesh.inventory[i]) : i \in 1..Len(mesh.inventory)}
    \cup {MeshKey(mesh.usage_history[i]) : i \in 1..Len(mesh.usage_history)}

\* C9: calculate_stock_forecast gives every mesh product whose daily usage
\* rate (metres used in the last 180 days / 180, to two decimals) is positive
\* an entry whose status follows months remaining r = current_metres /
\* daily_usage / 30 and the lead time L of its mesh type (4 when the type is
\* not configured): CRITICAL iff r < L, ORDER_NOW iff L <= r < L+1, LOW iff
\* L+1 <= r < L+2, OK iff r >= L+2
C9_MeshStatusThresholds ==
    call.op = "calculate_stock_forecast" =>
      \A key \in MeshKeys(mesh_file) :
         LET daily == RoundHalfEven(WindowMetres(mesh_file, key, 180) * 100, 180)
             m == MeshMetres(mesh_file, key) * 100
             L == lead_time_months(key.mesh_type)
         IN daily > 0 =>
              /\ forecast.raised = "none"
              /\ \E i \in 1..Len(forecast.entries) :
                    LET e == forecast.entries[i]
                    IN /\ MeshKey(e) = key
                       /\ (e.status = "CRITICAL") <=> (m < L * daily * 30)
                       /\ (e.status = "ORDER_NOW") <=> (/\ L * daily * 30 <= m
                                                        /\ m < (L + 1) * daily * 30)
                       /\ (e.status = "LOW") <=> (/\ (L + 1) * daily * 30 <= m
                                                  /\ m < (L + 2) * daily * 30)
                       /\ (e.status = "OK") <=> (m >= (L + 2) * daily * 30)

\* the status fits days remaining r = current_qty / rate and lead time L
StatusFitsDays(status, current_qty, rate, L) ==
    LET r == current_qty * rate.den        \* r and L, both scaled by rate.num
        l == L * rate.num
    IN /\ (status = "CRITICAL") <=> (r < l)
       /\ (status = "ORDER_NOW") <=> (l <= r /\ r < 2 * l)
       /\ (status = "LOW") <=> (2 * l <= r /\ r < 3 * l)
       /\ (status = "OK") <=> (r >= 3 * l)

\* the summary _forecast_boxes worked from
BoxesUsage == IF shopify_usage # <<>> THEN shopify_usage[1] ELSE ZeroUsage(180)

\* C10: in a component forecast every saddle, screw, trim and box entry whose
\* daily usage rate is positive has the status of its days remaining
\* r = current_qty / daily_usage against its lead time L (14 days for saddles
\* and trims, 7 for screws and boxes): CRITICAL iff r < L, ORDER_NOW iff
\* L <= r < 2L, LOW iff 2L <= r < 3L, OK iff r >= 3L
C10_ComponentStatusThresholds ==
    call.op = "get_component_forecast" =>
      LET u == forecast.usage_summary
          Rate(total) == [num |-> total, den |-> u.period_days]
          Fits(e, rate, L) ==
              rate.num > 0 => StatusFitsDays(e.entry.status, e.entry.current_qty, rate, L)
      IN /\ \A i \in 1..Len(forecast.saddles) :
               forecast.saddles[i].type = "saddle"
                 => Fits(forecast.saddles[i], Rate(u.total_saddles), 14)
         /\ \A i \in 1..Len(forecast.screws) :
               Fits(forecast.screws[i],
                    Rate(IF forecast.screws[i].screw_type = "trim_screw"
                         THEN u.total_trim_screws ELSE u.total_saddle_screws), 7)
         /\ \A i \in 1..Len(forecast.trims) :
               forecast.trims[i].type = "trim"
                 => Fits(forecast.trims[i], Rate(u.total_trims), 14)
         /\ \A i \in 1..Len(forecast.boxes) :
               Fits(forecast.boxes[i],
                    [num |-> BoxesUsage.order_count
                               * (IF forecast.boxes[i].box_type = "small_tube" THEN 50
                                  ELSE IF forecast.boxes[i].box_type = "large_tube" THEN 30
                                  ELSE 33),
                     den |-> BoxesUsage.period_days * 100], 7)

\* a screw entry with exactly one lead time of stock left (r = L) is ORDER_NOW
C10_Witness ==
    /\ call.op = "get_component_forecast"
    /\ \E i \in 1..Len(forecast.screws) :
          /\ forecast.screws[i].entry.status = "ORDER_NOW"
          /\ forecast.usage_summary.total_saddle_screws > 0
          /\ forecast.screws[i].screw_type = "saddle_screw"
          /\ forecast.screws[i].entry.current_qty * forecast.usage_summary.period_days
                = 7 * forecast.usage_summary.total_saddle_screws

\* every entry of a component forecast, coil yields included
ComponentEntries ==
    {forecast.saddles[i].entry : i \in 1..Len(forecast.saddles)}
    \cup {forecast.screws[i].entry : i \in 1..Len(forecast.screws)}
    \cup {forecast.trims[i].entry : i \in 1..Len(forecast.trims)}
    \cup {forecast.boxes[i].entry : i \in 1..Len(forecast.boxes)}

\* C11: every forecast entry whose usage rate is positive (its remaining time
\* is a number) reports a remaining time >= 0 that is 0 exactly when its
\* current quantity is 0: never 0 for a positive quantity, never positive for
\* a zero quantity. A mesh forecast that is asked for is returned.
C11_RemainingTimeZeroOnlyForZeroStock ==
    /\ call.op = "get_component_forecast" =>
         \A e \in ComponentEntries :
            e.days_remaining # <<>> =>
               /\ e.days_remaining[1] >= 0
               /\ (e.days_remaining[1] = 0) <=> (e.current_qty = 0)
    /\ (call.op = "calculate_stock_forecast" /\ forecast.raised = "none") =>
         \A i \in 1..Len(forecast.entries) :
            LET e == forecast.entries[i]
            IN e.days_remaining # <<>> =>
                 /\ e.days_remaining[1] >= 0 /\ e.months_remaining[1] >= 0
                 /\ (e.days_remaining[1] = 0) <=> (e.current_metres = 0)
                 /\ (e.months_remaining[1] = 0) <=> (e.current_metres = 0)

\* the classified entries of a component forecast (coil yields are labelled
\* COIL, not classified), each with the usage rate and lead time it was
\* classified against
Classified ==
    LET u == forecast.usage_summary
        Rate(total) == [num |-> total, den |-> u.period_days]
    IN {[entry |-> forecast.saddles[i].entry, rate |-> Rate(u.total_saddles), lead |-> 14] :
           i \in {j \in 1..Len(forecast.saddles) : forecast.saddles[j].type = "saddle"}}
       \cup
       {[entry |-> forecast.screws[i].entry,
         rate |-> Rate(IF forecast.screws[i].screw_type = "trim_screw"
                       THEN u.total_trim_screws ELSE u.total_saddle_screws),
         lead |-> 7] : i \in 1..Len(forecast.screws)}
       \cup
       {[entry |-> forecast.trims[i].entry, rate |-> Rate(u.total_trims), lead |-> 14] :
           i \in {j \in 1..Len(forecast.trims) : forecast.trims[j].type = "trim"}}
       \cup
       {[entry |-> forecast.boxes[i].entry,
         rate |-> box_daily_usage(BoxesUsage, forecast.boxes[i].box_type),
         lead |-> 7] : i \in 1..Len(forecast.boxes)}

\* CRITICAL < ORDER_NOW < LOW < OK
Urgency(status) ==
    CASE status = "CRITICAL" -> 0
      [] status = "ORDER_NOW" -> 1
      [] status = "LOW" -> 2
      [] status = "OK" -> 3

\* daily mesh rates in hundredths of a metre, and stock in metres on both
\* sides of every threshold of those rates
MeshRates == {1, 50, 100}
MeshLevels == {0, 1, 2, 59, 60, 74, 75, 89, 90, 119, 120, 149, 150, 179, 180}

\* C12: for a fixed usage rate > 0 and lead time the status never gets more
\* urgent as stock grows (CRITICAL < ORDER_NOW < LOW < OK): a classified
\* component entry is at least as urgent as any larger stock classified at its
\* rate and lead time and at most as urgent as any smaller one, and the mesh
\* ladder is monotone in current_metres at every rate and lead time
C12_StatusMonotoneInStock ==
    /\ call.op = "get_component_forecast" =>
         \A c \in Classified :
            c.rate.num > 0 =>
               \A q \in ForecastQuantities :
                  LET other == _get_status(days_remaining_of(q, c.rate), c.lead)
                  IN /\ q <= c.entry.current_qty
                          => Urgency(other) <= Urgency(c.entry.status)
                     /\ q >= c.entry.current_qty
                          => Urgency(other) >= Urgency(c.entry.status)
    /\ call.op = "calculate_stock_forecast" =>
         \A rate \in MeshRates, t \in MeshTypes, q1 \in MeshLevels, q2 \in MeshLevels :
            q1 <= q2 => Urgency(mesh_status(q1, rate, lead_time_months(t)))
                           <= Urgency(mesh_status(q2, rate, lead_time_months(t)))

\* a screw entry classified LOW at a positive rate: smaller stocks of the
\* levels compared are ORDER_NOW and CRITICAL, larger ones OK
C12_Witness ==
    /\ call.op = "get_component_forecast"
    /\ \E c \in Classified :
          /\ c.rate.num > 0 /\ c.entry.status = "LOW" /\ c.lead = 7
          /\ \E q \in ForecastQuantities :
                /\ q < c.entry.current_qty
                /\ _get_status(days_remaining_of(q, c.rate), c.lead) = "CRITICAL"
          /\ \E q \in ForecastQuantities :
                /\ q > c.entry.current_qty
                /\ _get_status(days_remaining_of(q, c.rate), c.lead) = "OK"

\* C13: whenever the daily usage rate is 0 the entry's status is NO_USAGE and
\* its remaining time is None, never a number: for every classified component
\* entry whose summary total is 0, and for every entry of a returned mesh
\* forecast whose key used no metres (to two decimals a day) in the window
C13_ZeroRateIsNoUsage ==
    /\ call.op = "get_component_forecast" =>
         \A c \in Classified :
            c.rate.num = 0 =>
               c.entry.status = "NO_USAGE" /\ c.entry.days_remaining = <<>>
    /\ (call.op = "calculate_stock_forecast" /\ forecast.raised = "none") =>
         \A i \in 1..Len(forecast.entries) :
            LET e == forecast.entries[i]
            IN RoundHalfEven(WindowMetres(mesh_file, MeshKey(e), 180) * 100, 180) = 0
                 => /\ e.status = "NO_USAGE"
                    /\ e.days_remaining = <<>>
                    /\ e.months_remaining = <<>>

\* a returned mesh forecast with an entry that has stock and no usage
C13_Witness ==
    /\ call.op = "calculate_stock_forecast"
    /\ forecast.raised = "none"
    /\ \E i \in 1..Len(forecast.entries) :
          /\ forecast.entries[i].current_metres > 0
          /\ forecast.entries[i].avg_daily_usage = 0
          /\ forecast.entries[i].status = "NO_USAGE"

\* C14: get_reorder_suggestions returns, for every mesh key whose stock is
\* below lead time + 2 months of its usage (status CRITICAL, ORDER_NOW or
\* LOW), a suggestion whose suggested_order_metres is
\* max(0, avg_monthly_usage * (lead_time_months + 2) - current_metres), and no
\* suggestion it returns is negative
C14_SuggestedOrderIsShortfall ==
    call.op = "get_reorder_suggestions" =>
      \A key \in MeshKeys(mesh_file) :
         LET daily == RoundHalfEven(WindowMetres(mesh_file, key, 180) * 100, 180)
             monthly == daily * 3
             m == MeshMetres(mesh_file, key)
             L == lead_time_months(key.mesh_type)
             shortfall == IF monthly * (L + 2) - m * 10 > 0
                          THEN monthly * (L + 2) - m * 10 ELSE 0
         IN (daily > 0 /\ m * 100 < (L + 2) * daily * 30) =>
              /\ forecast.raised = "none"
              /\ \E i \in 1..Len(forecast.suggestions) :
                    /\ MeshKey(forecast.suggestions[i]) = key
                    /\ forecast.suggestions[i].suggested_order_metres * 10 = shortfall
              /\ \A i \in 1..Len(forecast.suggestions) :
                    forecast.suggestions[i].suggested_order_metres >= 0

\* the daily rate of a key (hundredths of a metre) and the status and whole
\* days its stock stands for
MeshDaily(key) == RoundHalfEven(WindowMetres(mesh_file, key, 180) * 100, 180)

KeyStatus(key) ==
    mesh_status(MeshMetres(mesh_file, key), MeshDaily(key), lead_time_months(key.mesh_type))

\* the keys in current stock or in usage within the 180-day window
ForecastKeys ==
    {MeshKey(mesh_file.inventory[i]) : i \in 1..Len(mesh_file.inventory)}
    \cup {MeshKey(mesh_file.usage_history[i]) :
             i \in {j \in 1..Len(mesh_file.usage_history) :
                       mesh_file.usage_history[j].date.days_ago <= 180}}

\* C15: the mesh forecast has exactly one entry for every key in current stock
\* or in usage within the 180-day window and none for any other key; a key
\* with stock and no usage is NO_USAGE, a key with usage and no stock left has
\* days_remaining 0 and is CRITICAL
C15_OneEntryPerKey ==
    call.op = "calculate_stock_forecast" =>
      /\ forecast.raised = "none"
      /\ \A i \in 1..Len(forecast.entries) : MeshKey(forecast.entries[i]) \in ForecastKeys
      /\ \A key \in ForecastKeys :
            /\ Cardinality({i \in 1..Len(forecast.entries) :
                               MeshKey(forecast.entries[i]) = key}) = 1
            /\ \A i \in 1..Len(forecast.entries) :
                  LET e == forecast.entries[i]
                  IN MeshKey(e) = key =>
                       /\ WindowMetres(mesh_file, key, 180) = 0 => e.status = "NO_USAGE"
                       /\ (MeshDaily(key) > 0 /\ MeshMetres(mesh_file, key) = 0)
                            => (e.days_remaining = <<0>> /\ e.status = "CRITICAL")

\* where an entry stands in the claimed order: the urgent ones, then OK, then
\* NO_USAGE
Group(status) ==
    IF status = "OK" THEN 1 ELSE IF status = "NO_USAGE" THEN 2 ELSE 0

\* C16: of a mesh file that holds a key with OK stock and a key without usage,
\* calculate_stock_forecast returns a list in which the CRITICAL, ORDER_NOW and
\* LOW entries come first, then the OK entries, then the NO_USAGE entries
C16_OkThenNoUsageLast ==
    (/\ call.op = "calculate_stock_forecast"
     /\ \E a \in ForecastKeys, b \in ForecastKeys :
           KeyStatus(a) = "OK" /\ KeyStatus(b) = "NO_USAGE")
    => /\ forecast.raised = "none"
       /\ \A i \in 1..Len(forecast.entries), j \in 1..Len(forecast.entries) :
             i < j => Group(forecast.entries[i].status) <= Group(forecast.entries[j].status)

\* C17: of a mesh file that holds a key with usage and no stock left and a key
\* with usage and some urgent stock, calculate_stock_forecast returns a list
\* whose CRITICAL, ORDER_NOW and LOW entries are in ascending order of
\* days_remaining, the entry with days_remaining 0 before every positive one
C17_UrgentAscendingByDays ==
    (/\ call.op = "calculate_stock_forecast"
     /\ \E a \in ForecastKeys, b \in ForecastKeys :
           /\ MeshDaily(a) > 0 /\ MeshMetres(mesh_file, a) = 0
           /\ MeshMetres(mesh_file, b) > 0
           /\ KeyStatus(b) \in {"CRITICAL", "ORDER_NOW", "LOW"})
    => /\ forecast.raised = "none"
       /\ \A i \in 1..Len(forecast.entries), j \in 1..Len(forecast.entries) :
             (/\ i < j
              /\ Group(forecast.entries[i].status) = 0
              /\ Group(forecast.entries[j].status) = 0)
             => forecast.entries[i].days_remaining[1] <= forecast.entries[j].days_remaining[1]

\* the cached order list was fetched more than an hour ago
Stale == cache_file.last_synced # <<>> /\ now - cache_file.last_synced[1] > Hour

SummaryCalls == {"get_shopify_usage", "calculate_component_usage"}

\* C18: once the last fetch from the store is more than an hour old, a call
\* that returns a usage summary queries the store again (the cache is
\* rewritten at the time of the call) unless the request fails and the zero
\* summary is returned: no summary older than an hour is handed out
C18_SummaryOlderThanHourNotReturned ==
    [][(/\ call'.op \in SummaryCalls
        /\ Stale
        /\ forecast'.raised = "none")
       => \/ cache_file'.last_synced = <<now>>
          \/ /\ call'.upstream = "exception"
             /\ forecast'.usage = ZeroUsage(call'.days)]_vars

\* the orders of the store created in the last `days` days
InWindow(days) == SelectSeq(shop_orders, LAMBDA o : o.age_days <= days)

\* C19: get_shopify_usage(days, force_refresh=True), when the store answers,
\* returns the summary of the orders the store holds for the period at that
\* moment, whatever is memoized or cached
C19_ForcedRefreshReturnsFreshSummary ==
    (/\ call.op = "get_shopify_usage"
     /\ call.force_refresh
     /\ call.upstream = "ok")
    => forecast.usage = calculate_component_usage(InWindow(call.days), call.days)

UsageKeys == {"saddles", "saddle_screws", "trim_screws", "mesh_screws", "trims"}

\* C20: the summary returned for a period of d days has period_days = d,
\* counts no order and no component of an order created before the trailing
\* d-day window, and its daily averages are its totals over d
C20_SummaryIsOfRequestedPeriod ==
    (call.op \in SummaryCalls /\ forecast.raised = "none")
    => /\ forecast.usage.period_days = call.days
       /\ forecast.usage.order_count <= Len(InWindow(call.days))
       /\ \A k \in UsageKeys :
             /\ forecast.usage[k]
                   <= calculate_component_usage(InWindow(call.days), call.days)[k]
             /\ daily_avg(forecast.usage, k) = [num |-> forecast.usage[k], den |-> call.days]

\* C21: when the order provider raises on every request of a
\* get_component_forecast call (nothing is memoized), the call completes
\* without raising, the summary it worked from is all zero for the period
\* asked, and every saddle, screw, trim and box stock entry is NO_USAGE with
\* no remaining time
C21_UnavailableSummaryDegradesToNoUsage ==
    (/\ call.op = "get_component_forecast"
     /\ call.sync = "raised"
     /\ call.sync_boxes = "raised")
    => /\ forecast.raised = "none"
       /\ shopify_usage = <<>>
       /\ forecast.usage_summary =
             [period_days |-> call.days, order_count |-> 0, total_saddles |-> 0,
              total_saddle_screws |-> 0, total_trim_screws |-> 0, total_trims |-> 0]
       /\ \A c \in Classified :
             c.entry.status = "NO_USAGE" /\ c.entry.days_remaining = <<>>

\* the provider raised and a screw entry with stock came out NO_USAGE
C21_Witness ==
    /\ call.op = "get_component_forecast"
    /\ call.sync = "raised"
    /\ call.sync_boxes = "raised"
    /\ \E i \in 1..Len(forecast.screws) :
          /\ forecast.screws[i].entry.current_qty > 0
          /\ forecast.screws[i].entry.status = "NO_USAGE"

\* the usage events of the log whose date is within the trailing window of
\* `days` days
EventsInWindow(days) ==
    SelectSeq(mesh_file.usage_history, LAMBDA u : u.date.days_ago <= days)

UsageCalls == {"get_usage_by_period", "get_usage_by_product"}

\* C22: get_usage_by_period and get_usage_by_product never raise; an empty
\* log, a log in which no event falls inside the window, and days <= 0 all
\* yield an empty result
C22_UsageQueriesNeverRaise ==
    call.op \in UsageCalls =>
       /\ forecast.raised = "none"
       /\ (EventsInWindow(call.days) = <<>> \/ call.days <= 0) => forecast.result = <<>>

\* a product key none of whose usage records fails to be processed (none
\* carries an aware date)
Processable(key) ==
    \A i \in 1..Len(mesh_file.usage_history) :
       MeshKey(mesh_file.usage_history[i]) = key
         => ~fromisoformat(mesh_file.usage_history[i].date).aware

\* C23: a usage record of one product that cannot be processed does not abort
\* the batch: calculate_stock_forecast returns a list, and the list has an
\* entry for every product in stock whose own records can be processed
C23_FailureOfOneProductDoesNotAbort ==
    call.op = "calculate_stock_forecast" =>
       /\ forecast.raised = "none"
       /\ \A i \in 1..Len(mesh_file.inventory) :
             Processable(MeshKey(mesh_file.inventory[i]))
               => \E j \in 1..Len(forecast.entries) :
                     MeshKey(forecast.entries[j]) = MeshKey(mesh_file.inventory[i])

\* C24 (P5): for days > 0 the bucket values get_usage_by_period(days, "day")
\* returns add up to the sum of quantity * length_m over exactly the usage
\* events within the trailing window of `days` days
C24_DayBucketsSumToWindowTotal ==
    (call.op = "get_usage_by_period" /\ call.group_by = "day" /\ call.days > 0)
    => /\ forecast.raised = "none"
       /\ SumSeq([i \in 1..Len(forecast.result) |-> forecast.result[i].metres])
             = SumSeq([i \in 1..Len(EventsInWindow(call.days)) |->
                          EventsInWindow(call.days)[i].quantity
                            * EventsInWindow(call.days)[i].length_m])

\* the parameters the estimator is to use for a type (<<>> when no type is
\* given): each value from the type's configuration, from the production
\* defaults when the type is not configured or does not override the value
ClaimedParameter(saddle_type, value) ==
    IF saddle_type # <<>> /\ SaddleTypesConfig(saddle_type[1]) # <<>>
                          /\ SaddleTypesConfig(saddle_type[1])[1][value] # <<>>
    THEN SaddleTypesConfig(saddle_type[1])[1][value][1]
    ELSE ProductionDefaults[value]

\* floor(weight_kg * (1 - waste_percent / 100) * yield_per_kg), weight_kg >= 0
ClaimedOutput(weight_kg, saddle_type) ==
    (weight_kg * (100 - ClaimedParameter(saddle_type, "waste_percent"))
               * ClaimedParameter(saddle_type, "yield_per_kg")) \div 1000

\* C25: for a weight >= 0 the estimate has usable_kg = weight_kg *
\* (1 - waste_percent / 100), waste_kg = weight_kg * waste_percent / 100 and
\* expected_output = floor(usable_kg * yield_per_kg), with yield_per_kg and
\* waste_percent from the type's configuration and from the production
\* defaults where the type or the value is absent (corrugated, 100 kg: usable
\* 73.0, output 4818); the estimated_yield add_coil stores and the
\* expected_saddles log_production records are that same output for their
\* weight and type
C25_YieldEstimate ==
    /\ call.op = "calculate_production_estimate" =>
         LET waste == ClaimedParameter(call.type, "waste_percent")
         IN /\ forecast.usable_kg = call.weight_kg * (100 - waste)
            /\ forecast.waste_kg = call.weight_kg * waste
            /\ forecast.usable_kg + forecast.waste_kg = call.weight_kg * 100
            /\ forecast.expected_output = ClaimedOutput(call.weight_kg, call.type)
            /\ (call.type = <<"corrugated">> /\ call.weight_kg = 100)
                 => (forecast.usable_kg = 7300 /\ forecast.expected_output = 4818)
    /\ call.op = "add_coil" =>
         coil_data.inventory[Len(coil_data.inventory)].estimated_yield
            = ClaimedOutput(call.weight_kg, <<call.type>>)
    /\ (call.op = "log_production" /\ ret = "production_record"
        /\ call.weight_used_kg >= 0) =>
         LET record == saddle_data.production_history[Len(saddle_data.production_history)]
             waste == ClaimedParameter(<<record.saddle_type>>, "waste_percent")
         IN /\ record.expected_saddles
                  = ClaimedOutput(call.weight_used_kg, <<record.saddle_type>>)
            /\ record.usable_kg = call.weight_used_kg * (100 - waste)
            /\ record.waste_kg = call.weight_used_kg * waste

\* a production run on a trim coil, whose type overrides the yield only:
\* 2 kg at the default 30 % waste and 8.4 trims per kg give 11 trims
C25_Witness ==
    /\ call.op = "log_production"
    /\ ret = "production_record"
    /\ call.weight_used_kg = 2
    /\ LET record == saddle_data.production_history[Len(saddle_data.production_history)]
       IN /\ record.saddle_type = "trim"
          /\ record.usable_kg = 140
          /\ record.expected_saddles = 11

\* the forecast list a coil's yield belongs to
CoilList(coil) == IF coil.saddle_type = "trim" THEN forecast.trims ELSE forecast.saddles

\* C26: for every coil that still has material (current_weight_kg > 0, in
\* stock or in use) the saddle or trim forecast holds a separate entry of type
\* coil_yield and status COIL whose current_qty is the estimator's expected
\* output for the coil's current weight and type; no entry of on-shelf stock
\* includes a coil quantity
C26_CoilYieldEntryPerCoil ==
    call.op = "get_component_forecast" =>
       /\ \A i \in 1..Len(coil_file.inventory) :
             LET coil == coil_file.inventory[i]
             IN coil.current_weight_kg > 0 =>
                  \E j \in 1..Len(CoilList(coil)) :
                     LET e == CoilList(coil)[j]
                     IN /\ e.type = "coil_yield"
                        /\ e.entry.status = "COIL"
                        /\ e.colour = coil.colour
                        /\ e.entry.current_qty
                              = expected_output(coil.current_weight_kg, coil.saddle_type)
       /\ \A j \in 1..Len(forecast.saddles) :
             forecast.saddles[j].type = "saddle" =>
                \E i \in 1..Len(saddle_file.inventory) :
                   /\ SameSaddle(saddle_file.inventory[i],
                                 forecast.saddles[j].saddle_type, forecast.saddles[j].colour)
                   /\ forecast.saddles[j].entry.current_qty = saddle_file.inventory[i].quantity

\* the records of a list whose type (field `field`) is not T, in order
OfOtherTypes(inventory, field, T) == SelectSeq(inventory, LAMBDA item : item[field] # T)

\* C27: a stocktake of one saddle type T leaves every saddle_stock record
\* whose saddle_type differs from T, and the whole production_history, as they
\* were; a stocktake of one mesh type leaves the records of every other mesh
\* type and all incoming_orders as they were
C27_StocktakeReplacesOnlyItsType ==
    [][/\ (/\ call'.op = "apply_category_stocktake"
           /\ call'.category \in {"corrugated_saddles", "trimdek_saddles"})
          => LET T == IF call'.category = "corrugated_saddles" THEN "corrugated"
                      ELSE "trimdek"
             IN /\ OfOtherTypes(saddle_file'.inventory, "saddle_type", T)
                      = OfOtherTypes(saddle_file.inventory, "saddle_type", T)
                /\ saddle_file'.production_history = saddle_file.production_history
       /\ (/\ call'.op = "apply_category_stocktake"
           /\ call'.category \in {"mesh_4mm", "mesh_2mm"})
          => LET T == IF call'.category = "mesh_4mm" THEN "4mm_aluminium"
                      ELSE "2mm_ember_guard"
             IN /\ OfOtherTypes(mesh_file'.inventory, "mesh_type", T)
                      = OfOtherTypes(mesh_file.inventory, "mesh_type", T)
                /\ mesh_file'.incoming_orders = mesh_file.incoming_orders]_vars

\* C28: a fetch that ended with an error response from the store is not
\* recorded as a successful sync: when fetch_orders has just queried the store
\* and got `errors`, the next fetch_orders call (made before any time has
\* passed, without force_refresh) queries the store again rather than
\* returning the order list of the failed fetch from the cache
C28_FailedFetchNotCached ==
    [][(/\ call.op \in SummaryCalls
        /\ call.queried
        /\ call.upstream = "errors"
        /\ call'.op \in SummaryCalls
        /\ call'.fetched)
       => call'.queried]_vars

\* the material of an inventory: width_mm * length_m * quantity over its records
Material(data) ==
    SumSeq([i \in 1..Len(data.inventory) |->
               data.inventory[i].width_mm * data.inventory[i].length_m
                  * data.inventory[i].quantity])

\* how often a width is among the target widths
Asked(target_widths, w) ==
    Cardinality({j \in 1..Len(target_widths) : target_widths[j] = w})

\* C29: cut_roll raises exactly when the target widths do not sum to the
\* source width or no source roll is in stock, and then leaves inventory,
\* usage_history and cutting_history (and the file) as they were; otherwise it
\* takes exactly one source roll, adds one roll of the same mesh type, length
\* and colour for every target width, changes the stock of no other product,
\* logs the cut, and the material in the inventory is the same as before
C29_CutRollAllOrNothing ==
    [][call'.op = "cut_roll" =>
         LET p == call'.product
             tw == call'.target_widths
             invalid == SumSeq(tw) # p.width_mm \/ get_stock_level(mesh_data, p) < 1
         IN IF invalid
            THEN /\ ret' # "cut_record"
                 /\ mesh_data'.inventory = mesh_data.inventory
                 /\ mesh_data'.usage_history = mesh_data.usage_history
                 /\ mesh_data'.cutting_history = mesh_data.cutting_history
                 /\ mesh_file' = mesh_file
            ELSE /\ ret' = "cut_record"
                 /\ \A mt \in MeshTypes, w \in {250, 500} :
                       get_stock_level(mesh_data', Product(mt, w))
                          = get_stock_level(mesh_data, Product(mt, w))
                            + (IF mt = p.mesh_type
                               THEN Asked(tw, w) - (IF w = p.width_mm THEN 1 ELSE 0)
                               ELSE 0)
                 /\ Material(mesh_data') = Material(mesh_data)
                 /\ Len(mesh_data'.cutting_history) = Len(mesh_data.cutting_history) + 1
                 /\ mesh_file' = mesh_data']_vars

\* a 500 mm roll has been cut into two 250 mm rolls
C29_Witness ==
    /\ call.op = "cut_roll"
    /\ ret = "cut_record"
    /\ call.target_widths = <<250, 250>>
    /\ get_stock_level(mesh_data, Product("4mm_aluminium", 250)) >= 2
    /\ Len(mesh_data.cutting_history) >= 1

CursorMoves == {"next_item", "previous_item", "go_to_item"}
WizardCalls == CursorMoves \cup {"skip_current", "set_quantity"}

\* where a cursor move is asked to go
Destination ==
    IF call'.op = "next_item" THEN current_index + 1
    ELSE IF call'.op = "previous_item" THEN current_index - 1
    ELSE call'.index

\* C30: a StocktakeState initialized with a non-empty item list has its
\* cursor in range (0 <= current_index < len(items)) after initialize and
\* after every next_item, previous_item, go_to_item, skip_current and
\* set_quantity call; a cursor move returns False exactly when its destination
\* is out of range and then leaves current_index as it was, else it returns
\* True and the cursor is at the destination; skip_current and set_quantity do
\* not move the cursor
C30_CursorStaysInRange ==
    [][/\ (call'.op = "initialize" /\ Len(wizard_items') > 0)
          => (0 <= current_index' /\ current_index' < Len(wizard_items'))
       /\ (call'.op \in WizardCalls /\ Len(wizard_items) > 0)
          => /\ 0 <= current_index' /\ current_index' < Len(wizard_items')
             /\ call'.op \in CursorMoves =>
                  LET leaves == Destination < 0 \/ Destination >= Len(wizard_items)
                  IN /\ (ret' = "False") <=> leaves
                     /\ (ret' = "True") <=> ~leaves
                     /\ current_index' = IF leaves THEN current_index ELSE Destination
             /\ call'.op \notin CursorMoves => current_index' = current_index]_vars

\* next_item has been refused at the last of several items
C30_Witness ==
    /\ call.op = "next_item"
    /\ ret = "False"
    /\ Len(wizard_items) > 1
    /\ current_index = Len(wizard_items) - 1

====
